---- MODULE Spec2Model ----
(***************************************************************************)
(* Verification model of the terminal coding assistant (repository "ai").  *)
(*                                                                         *)
(* Spec      the Agent Loop: AIEngine.run_conversation and run_edit of     *)
(*           ai_engine_main.py, together with the hotkey queue of          *)
(*           CLIRenderer and the Tool Runtime of ai_engine_tools.py.       *)
(* SpecTool  the Tool Runtime taken alone: handle_tool_call applied to     *)
(*           every tool name, argument shape and environment outcome.      *)
(*                                                                         *)
(* Text the code compares (the prompt, a follow-up, the dog-whistle        *)
(* phrase) is a sequence of one-character strings, so that strip() and     *)
(* lower() are computed.  Text the code only forwards (file contents,      *)
(* command output, rendered results) is a tag naming the source literal.   *)
(***************************************************************************)
EXTENDS Naturals, Integers, Sequences, FiniteSets, TLC

None == "None"

(***************************************************************************)
(* Bounds of the model.                                                    *)
(***************************************************************************)
\* longest output array of one provider response
MaxOut == 3
\* model requests opened during one run_conversation
MaxRequests == 3
\* answers given to prompt_follow_up during one run_conversation
MaxFollowUps == 2
\* calls of run_conversation / run_edit on one engine
MaxRuns == 2
\* output items the provider delivers and q/r keystrokes the watcher thread
\* reads, together, during one run_conversation
MaxEvents == 3

(***************************************************************************)
(* Text helpers: str.strip(), str.lower(), str.startswith().               *)
(***************************************************************************)
IsSpace(c) == c \in {" ", "\t", "\n"}

LowerChar(c) ==
  CASE c = "J" -> "j"
    [] c = "F" -> "f"
    [] c = "D" -> "d"
    [] c = "I" -> "i"
    [] c = "G" -> "g"
    [] c = "O" -> "o"
    [] c = "N" -> "n"
    [] c = "E" -> "e"
    [] c = "W" -> "w"
    [] c = "L" -> "l"
    [] c = "S" -> "s"
    [] c = "A" -> "a"
    [] c = "R" -> "r"
    [] c = "T" -> "t"
    [] c = "P" -> "p"
    [] c = "C" -> "c"
    [] c = "H" -> "h"
    [] OTHER -> c

Lower(s) == [k \in 1..Len(s) |-> LowerChar(s[k])]

RECURSIVE LStrip(_)
LStrip(s) ==
  IF s = <<>> THEN <<>>
  ELSE IF IsSpace(Head(s)) THEN LStrip(Tail(s)) ELSE s

RECURSIVE RStrip(_)
RStrip(s) ==
  IF s = <<>> THEN <<>>
  ELSE IF IsSpace(s[Len(s)]) THEN RStrip(SubSeq(s, 1, Len(s) - 1)) ELSE s

Strip(s) == RStrip(LStrip(s))

StartsWith(s, p) == Len(s) >= Len(p) /\ SubSeq(s, 1, Len(p)) = p

(***************************************************************************)
(* Tool Runtime (ai_engine_tools.py).                                      *)
(*                                                                         *)
(* A call is (tool_name, args, runtime) and an environment outcome env:    *)
(*   args.json     "ok" | "bad"     arguments string parses as JSON or not *)
(*   args.path     path / filePath / workdir / cwd: a sequence of path     *)
(*                 components, absolute when it starts with "/", <<>> when *)
(*                 the argument is absent                                  *)
(*   args.content  "none" | "" | "a" | "b"   content / contents / patch /  *)
(*                 pattern                                                 *)
(*   args.command  "none" | "str" | "list"                                 *)
(*   env.old       "missing" | "a" | "unreadable"   the target file        *)
(*   env.write_ok  the write of review_file_update succeeds                *)
(*   env.confirm   the answer to prompt_confirm                            *)
(*   env.proc      "ok" | "nonzero" | "timeout" | "rejected" | "oserror"   *)
(*                 | "notfound"   outcome of the subprocess                *)
(* The result is [result, mutated, effects, raised]; effects are the file  *)
(* and process effects the call had, raised the exception that left it.    *)
(***************************************************************************)
JFDI_REQUIRED_MESSAGE == "JFDI_REQUIRED_MESSAGE"

GatedTools == {"write", "write_file", "apply_patch", "shell", "unit_test_coverage"}

ToolNames ==
  GatedTools \cup {"read_file", "update_plan", "glob", "search_content", "frobnicate"}

\* runtime.base_root (the project root) and runtime.default_root (the scope)
base_root == <<"/", "proj">>
default_root == <<"/", "proj", "pkg">>

ToolRuntime(jfdi) == [jfdi_enabled |-> jfdi]

NoPath == <<>>

\* Path.is_absolute()
is_absolute(path) == path # <<>> /\ path[1] = "/"

\* what the symbolic link "ln" (a link inside the scope) points to
LinkTarget == <<"/", "etc">>

\* Path.resolve(): "." and ".." are folded and symbolic links followed
RECURSIVE resolve_from(_, _)
resolve_from(done, rest) ==
  IF rest = <<>> THEN done
  ELSE LET c == Head(rest) IN
       CASE c = "/"  -> resolve_from(<<"/">>, Tail(rest))
         [] c = "."  -> resolve_from(done, Tail(rest))
         [] c = ".." -> resolve_from(IF Len(done) > 1
                                     THEN SubSeq(done, 1, Len(done) - 1)
                                     ELSE done, Tail(rest))
         [] c = "ln" -> resolve_from(LinkTarget, Tail(rest))
         [] OTHER    -> resolve_from(Append(done, c), Tail(rest))

\* (root / path).resolve() if not path.is_absolute() else path.resolve()
resolve(root, path) ==
  IF is_absolute(path) THEN resolve_from(<<>>, path)
  ELSE resolve_from(<<>>, root \o path)

\* path.relative_to(root) does not raise ValueError
relative_to(path, root) ==
  Len(path) >= Len(root) /\ SubSeq(path, 1, Len(root)) = root

Ret(text, mutated, effects) ==
  [result |-> text, mutated |-> mutated, effects |-> effects, raised |-> None]

Raise(exc, effects) ==
  [result |-> None, mutated |-> FALSE, effects |-> effects, raised |-> exc]

\* run_sandboxed_bash: the exit status, or the exception that leaves it
run_sandboxed_bash(env) ==
  CASE env.proc = "rejected" -> [raised |-> "CommandRejected", exit_code |-> 0]
    [] env.proc \in {"oserror", "notfound"} -> [raised |-> "OSError", exit_code |-> 0]
    [] env.proc = "timeout" -> [raised |-> None, exit_code |-> 124]
    [] env.proc = "nonzero" -> [raised |-> None, exit_code |-> 1]
    [] OTHER -> [raised |-> None, exit_code |-> 0]

\* a rejected command raises before subprocess.run is reached
SpawnEffect(env) == IF env.proc = "rejected" THEN {} ELSE {"subprocess"}

\* CLIRenderer.review_file_update: auto_apply is accepted and never read
review_file_update(old_text, new_text, auto_apply, env) ==
  IF old_text = new_text THEN Ret("no_change", FALSE, {})
  ELSE IF new_text = "" THEN Ret("delete_requested", FALSE, {})
  ELSE IF env.write_ok THEN Ret("applied", TRUE, {"file_written"})
  ELSE Ret("error: failed to write", FALSE, {})

delete_path_via_shell(env) ==
  LET r == run_sandboxed_bash(env) IN
  IF r.raised = "CommandRejected" THEN Ret("error: rejected", FALSE, {})
  ELSE IF r.raised # None THEN Ret("error: failed to delete", FALSE, SpawnEffect(env))
  ELSE IF r.exit_code # 0 THEN Ret("error: rm exited with", FALSE, SpawnEffect(env))
  ELSE Ret("applied", TRUE, SpawnEffect(env) \cup {"file_deleted"})

apply_file_update(args, runtime, auto_apply, env) ==
  IF ~relative_to(resolve(default_root, args.path), base_root)
  THEN Ret("skipped_out_of_scope", FALSE, {})
  ELSE IF env.old = "unreadable" THEN Ret("error: failed to read", FALSE, {"file_read"})
  ELSE
    LET old_text == IF env.old = "missing" THEN "" ELSE env.old
        read     == IF env.old = "missing" THEN {} ELSE {"file_read"}
        status   == review_file_update(old_text, args.content, auto_apply, env)
        final    == IF status.result = "delete_requested"
                    THEN delete_path_via_shell(env)
                    ELSE status
    IN  [final EXCEPT !.effects = @ \cup read]

handle_shell_command(args, runtime, env) ==
  IF args.command = "none"
  THEN Ret("error: invalid command; expected string or list", FALSE, {})
  ELSE IF ~relative_to(resolve(default_root, args.path), base_root)
  THEN Ret("error: workdir outside project root", FALSE, {})
  ELSE
    LET r == run_sandboxed_bash(env) IN
    IF r.raised = "CommandRejected" THEN Ret("command rejected", FALSE, {})
    ELSE IF r.raised # None THEN Raise(r.raised, SpawnEffect(env))
    ELSE Ret("shell output", FALSE, SpawnEffect(env))

run_unit_test_coverage(args, runtime, env) ==
  LET r == run_sandboxed_bash(env) IN
  IF r.raised = "CommandRejected" THEN Ret("command rejected", FALSE, {})
  ELSE IF r.raised # None
  THEN Ret("error: failed to run pytest coverage", FALSE, SpawnEffect(env))
  ELSE Ret("coverage output", FALSE, SpawnEffect(env))

apply_patch(args, runtime, env) ==
  IF args.content \in {"none", ""} THEN Ret("error: missing patch", FALSE, {})
  ELSE IF ~env.confirm THEN Ret("user_rejected", FALSE, {})
  ELSE IF env.proc = "notfound"
  THEN Ret("error: 'patch' command not available", FALSE, {})
  ELSE IF env.proc = "oserror" THEN Raise("OSError", {"subprocess"})
  ELSE IF env.proc # "ok"
  THEN Ret("error: patch failed", FALSE, {"subprocess"})
  ELSE Ret("applied", TRUE, {"subprocess", "file_written"})

read_file(args, runtime, env) ==
  IF args.path = NoPath THEN Ret("error: missing path", FALSE, {})
  ELSE IF ~relative_to(resolve(default_root, args.path), base_root)
  THEN Ret("error: path outside project root", FALSE, {})
  ELSE IF env.old # "a" THEN Ret("error: failed to read", FALSE, {"file_read"})
  ELSE Ret("Contents of", FALSE, {"file_read"})

\* run_glob_search: pattern, then cwd, then the directory is listed
run_glob_search(args, runtime, env) ==
  IF args.content \in {"none", ""}
  THEN Ret("error: pattern must be a non-empty string", FALSE, {})
  ELSE IF args.path # NoPath
          /\ ~relative_to(resolve(default_root, args.path), base_root)
  THEN Ret("error: cwd outside project root", FALSE, {})
  ELSE IF env.old = "missing" THEN Ret("Glob pattern returned no matches.", FALSE, {"file_read"})
  ELSE Ret("Glob matches for", FALSE, {"file_read"})

\* run_search_content: pattern, then cwd, then rg under the sandbox, with
\* the search in Python when rg was rejected or failed
run_search_content(args, runtime, env) ==
  IF args.content \in {"none", ""}
  THEN Ret("error: pattern must be a non-empty string", FALSE, {})
  ELSE IF args.path # NoPath
          /\ ~relative_to(resolve(default_root, args.path), base_root)
  THEN Ret("error: cwd outside project root", FALSE, {})
  ELSE
    LET r == run_sandboxed_bash(env) IN
    IF r.raised = None /\ r.exit_code = 0 /\ env.old = "a"
    THEN Ret("search matches", FALSE, SpawnEffect(env))
    ELSE IF r.raised = None /\ r.exit_code = 0
    THEN Ret("Search pattern returned no matches.", FALSE, SpawnEffect(env))
    ELSE Ret("search matches (python)", FALSE, SpawnEffect(env) \cup {"file_read"})

\* instruction_implies_write(runtime.latest_instruction): its value reaches
\* only the auto_apply argument of review_file_update
handle_tool_call(tool_name, args, runtime, env) ==
  IF args.json = "bad" THEN Raise("ValueError", {})
  ELSE CASE tool_name = "read_file" -> read_file(args, runtime, env)
    [] tool_name \in {"write", "write_file"} ->
         IF args.path = NoPath \/ args.content = "none"
         THEN Ret("error: missing file path or contents", FALSE, {})
         ELSE LET status == apply_file_update(args, runtime, FALSE, env)
              IN  [status EXCEPT !.mutated = (status.result = "applied")]
    [] tool_name = "apply_patch" -> apply_patch(args, runtime, env)
    [] tool_name = "shell" -> handle_shell_command(args, runtime, env)
    [] tool_name = "update_plan" -> Ret("plan updated", FALSE, {})
    [] tool_name = "unit_test_coverage" -> run_unit_test_coverage(args, runtime, env)
    [] tool_name = "glob" -> run_glob_search(args, runtime, env)
    [] tool_name = "search_content" -> run_search_content(args, runtime, env)
    [] OTHER -> Ret("error: unknown tool", FALSE, {})

\* the Tool Runtime as the specification describes it and as run_conversation
\* expects it (ToolRuntime(jfdi_enabled=...), JFDI_REQUIRED_MESSAGE): a gated
\* tool invoked while jfdi_enabled is false returns JFDI_REQUIRED_MESSAGE
gated_handle_tool_call(tool_name, args, runtime, env) ==
  IF tool_name \in GatedTools /\ ~runtime.jfdi_enabled
  THEN Ret(JFDI_REQUIRED_MESSAGE, FALSE, {})
  ELSE handle_tool_call(tool_name, args, runtime, env)

(***************************************************************************)
(* The Sandbox Executor of bash_executor.py.  A command is a sequence of   *)
(* one-character strings, so that strip(), lower(), the substring tests    *)
(* and the tokeniser are computed.                                         *)
(***************************************************************************)
DISALLOWED_SUBSTRINGS ==
  { <<"s", "u", "d", "o">>,
    <<"c", "h", "m", "o", "d">>,
    <<"c", "h", "o", "w", "n">>,
    <<"c", "h", "g", "r", "p">>,
    <<"m", "k", "f", "s">>,
    <<"|", "&">>,
    <<";", "&">>,
    <<"s", "h", "u", "t", "d", "o", "w", "n">>,
    <<"r", "e", "b", "o", "o", "t">>,
    <<"s", "y", "s", "t", "e", "m", "c", "t", "l">>,
    <<"k", "i", "l", "l">>,
    <<":", ">">> }

\* marker in text
Contains(text, marker) ==
  \E i \in 1..Len(text) :
    i + Len(marker) - 1 <= Len(text) /\ SubSeq(text, i, i + Len(marker) - 1) = marker

looks_like_path(token) ==
  StartsWith(token, <<"/">>) \/ StartsWith(token, <<".", ".">>)

\* faulty variant: only a token that is ".git" itself is refused
is_git_token(token) == token = <<".", "g", "i", "t">>

references_git(token) == Contains(token, <<".", "g", "i", "t">>)

\* shlex.split: tokens end at white space outside quotes, quotes are removed,
\* an unclosed quote is a ValueError
RECURSIVE shlex_scan(_, _, _, _, _)
shlex_scan(rest, token, open, quote, tokens) ==
  IF rest = <<>>
  THEN IF quote # "" THEN [ok |-> FALSE, tokens |-> <<>>]
       ELSE [ok |-> TRUE, tokens |-> IF open THEN Append(tokens, token) ELSE tokens]
  ELSE LET c == Head(rest) IN
       IF quote # ""
       THEN IF c = quote
            THEN shlex_scan(Tail(rest), token, TRUE, "", tokens)
            ELSE shlex_scan(Tail(rest), Append(token, c), TRUE, quote, tokens)
       ELSE IF c \in {"'", "\""}
       THEN shlex_scan(Tail(rest), token, TRUE, c, tokens)
       ELSE IF IsSpace(c)
       THEN shlex_scan(Tail(rest), <<>>, FALSE, "",
                       IF open THEN Append(tokens, token) ELSE tokens)
       ELSE shlex_scan(Tail(rest), Append(token, c), TRUE, "", tokens)

\* str.split(): runs of white space separate the tokens
RECURSIVE str_split(_, _, _)
str_split(rest, token, tokens) ==
  IF rest = <<>>
  THEN IF token # <<>> THEN Append(tokens, token) ELSE tokens
  ELSE IF IsSpace(Head(rest))
  THEN str_split(Tail(rest), <<>>, IF token # <<>> THEN Append(tokens, token) ELSE tokens)
  ELSE str_split(Tail(rest), Append(token, Head(rest)), tokens)

\* _tokenize
tokenize(command) ==
  LET r == shlex_scan(command, <<>>, FALSE, "", <<>>) IN
  IF r.ok THEN r.tokens ELSE str_split(command, <<>>, <<>>)

\* _validate_command: TRUE when CommandRejected is raised
validate_command(command) ==
  LET lowered == Lower(command)
      tokens  == tokenize(command)
  IN  \/ \E marker \in DISALLOWED_SUBSTRINGS : Contains(lowered, marker)
      \/ \E k \in DOMAIN tokens : looks_like_path(tokens[k])
      \/ \E k \in DOMAIN tokens : references_git(tokens[k])

BashResult(raised, spawned, cwd, exit_code) ==
  [raised |-> raised, spawned |-> spawned, cwd |-> cwd, exit_code |-> exit_code,
   stdout |-> <<>>, stderr |-> <<>>]

\* lines 112-120: exc.stdout / exc.stderr are bytes, str or None
partial_output(raw) ==
  CASE raw = "bytes" -> <<"partial">>
    [] raw = "str" -> <<"partial">>
    [] OTHER -> <<>>

\* faulty variant: the timeout is not reported on stderr
stderr_as_captured(stderr) == stderr

\* line 126: stderr + "\nCommand timed out"
timed_out_stderr(stderr) == stderr \o <<"Command timed out">>

\* lines 108-128: the CommandResult of a command that exceeded its timeout
TimedOutResult(cwd, env) ==
  [BashResult(None, TRUE, cwd, 124) EXCEPT
     !.stdout = partial_output(env.stdout),
     !.stderr = timed_out_stderr(partial_output(env.stderr))]

\* run_sandboxed_bash(command, cwd, scope_root): env.is_dir is cwd.is_dir(),
\* env.proc the outcome of subprocess.run
sandboxed_bash(command, cwd, scope_root, env) ==
  LET stripped == Strip(command)
      real_cwd == resolve_from(<<>>, cwd)
      real_scope == resolve_from(<<>>, scope_root)
  IN  IF stripped = <<>> THEN BashResult("CommandRejected", FALSE, <<>>, 0)
      ELSE IF ~env.is_dir THEN BashResult("CommandRejected", FALSE, <<>>, 0)
      ELSE IF ~relative_to(real_cwd, real_scope)
      THEN BashResult("CommandRejected", FALSE, <<>>, 0)
      ELSE IF validate_command(stripped)
      THEN BashResult("CommandRejected", FALSE, <<>>, 0)
      ELSE CASE env.proc = "oserror" -> BashResult("OSError", TRUE, real_cwd, 0)
             [] env.proc = "timeout" -> TimedOutResult(real_cwd, env)
             [] env.proc = "nonzero" -> BashResult(None, TRUE, real_cwd, 1)
             [] OTHER -> BashResult(None, TRUE, real_cwd, 0)

\* commands, working directories and outcomes the executor is checked over
BashCommands ==
  { <<>>,
    <<" ", " ">>,
    <<"l", "s">>,
    <<"S", "u", "d", "o", " ", "l", "s">>,
    <<"s", "k", "i", "l", "l">>,
    <<"a", ":", ">", "b">>,
    <<"c", "a", "t", " ", "/", "e", "t", "c">>,
    <<"c", "a", "t", " ", ".", ".", "/", "x">>,
    <<"c", "d", " ", ".", ".">>,
    <<"c", "a", "t", " ", "a", "/", ".", "g", "i", "t">>,
    <<"l", "s", " ", "'", "a", " ", "b", "'">>,
    <<"c", "a", "t", " ", "'", "/", "e", "t", "c", "'">>,
    <<"e", "c", "h", "o", " ", "'", "/", "x">>,
    <<"l", "s", " ", "a", "/", ".", ".", "/", "b">>,
    <<" ", "l", "s", " ">> }

BashCwds ==
  { base_root, default_root, <<"/", "etc">>,
    <<"/", "proj", "pkg", "..", "..", "etc">>, <<"/", "proj", "ln">> }

\* stdout, stderr: what TimeoutExpired carries of the output captured so far
BashEnvs ==
  { e \in [is_dir : BOOLEAN, proc : {"ok", "nonzero", "timeout", "oserror"},
           stdout : {"none", "bytes", "str"}, stderr : {"none", "bytes", "str"}] :
      e.proc # "timeout" => (e.stdout = "none" /\ e.stderr = "none") }

BashCalls == [command : BashCommands, cwd : BashCwds, env : BashEnvs]

\* path arguments: absent, inside the scope, inside the project but outside
\* the scope, outside the project (relative, absolute, through "..", through
\* a symbolic link, a sibling of the project root)
PathArgs ==
  { NoPath, <<"a.txt">>, <<"..", "b.txt">>, <<"..", "..", "etc">>,
    <<"/", "proj", "a.txt">>, <<"/", "etc">>, <<"/", "proj", "..", "etc">>,
    <<"ln", "passwd">>, <<"/", "projx">> }

\* the argument shapes and environment outcomes a call is checked over
ArgShapes ==
  [json : {"ok", "bad"}, path : PathArgs,
   content : {"none", "", "a", "b"}, command : {"none", "str", "list"}]

EnvOutcomes ==
  [old : {"missing", "a", "unreadable"}, write_ok : BOOLEAN, confirm : BOOLEAN,
   proc : {"ok", "nonzero", "timeout", "rejected", "oserror", "notfound"}]

\* outcomes a subprocess named by the tool can have
ToolEnvs(tool_name) ==
  IF tool_name = "apply_patch"
  THEN {e \in EnvOutcomes : e.proc \in {"ok", "nonzero", "notfound", "oserror"}}
  ELSE {e \in EnvOutcomes : e.proc # "notfound"}

(***************************************************************************)
(* Text the user types, and the configured phrase.                         *)
(***************************************************************************)
NEW_CONVERSATION_TOKEN ==
  <<"<", "<", "N", "E", "W", "_", "C", "O", "N", "V", "E", "R", "S", "A", "T",
    "I", "O", "N", ">", ">">>

\* input() raising EOFError or KeyboardInterrupt, and the None it becomes
EOF == <<"EOF">>
NoneText == <<"None">>

\* AIEngine.__init__: (config.get("dog_whistle") or "jfdi").strip() or "jfdi"
DefaultDogWhistle == <<"j", "f", "d", "i">>

DogWhistleOf(config_value) ==
  LET given == IF config_value = NoneText \/ config_value = <<>>
               THEN DefaultDogWhistle ELSE config_value
  IN  IF Strip(given) = <<>> THEN DefaultDogWhistle ELSE Strip(given)

ConfigPhrases == {<<" ", "G", "o", " ">>}

\* faulty variant: the phrase is looked for anywhere in the text
MatchesDogWhistleAnywhere(text, phrase) ==
  LET t == Lower(Strip(text))
      p == Lower(phrase)
  IN  \E i \in 1..Len(t) :
        i + Len(p) - 1 <= Len(t) /\ SubSeq(t, i, i + Len(p) - 1) = p

\* AIEngine._matches_dog_whistle
MatchesDogWhistle(text, phrase) == Lower(Strip(text)) = Lower(phrase)

\* CLIRenderer.prompt_follow_up for one line typed at the prompt
PromptFollowUp(raw) ==
  IF raw = EOF THEN NoneText
  ELSE LET trimmed == Strip(raw) IN
       IF trimmed = <<>> THEN <<>>
       ELSE IF Lower(trimmed) = <<"n", "e", "w">> THEN NEW_CONVERSATION_TOKEN
       ELSE trimmed

\* prompts handed to run_conversation
Prompts ==
  { <<>>,
    <<" ">>,
    <<"f", "i", "x">>,
    <<"J", "F", "D", "I", " ">>,
    <<"G", "O">>,
    <<"j", "f", "d", "i", " ", "g", "o">> }

\* lines typed at the follow-up prompt
FollowUpLines ==
  { EOF,
    <<" ">>,
    <<"f", "i", "x">>,
    <<" ", "J", "f", "d", "i">>,
    <<"g", "o", " ">>,
    <<"j", "f", "d", "i", " ", "g", "o">>,
    <<"N", "e", "w">>,
    <<"!">>,
    <<"!", "l", "s">> }

(***************************************************************************)
(* Transcript items (ai_engine_main.py, _make_* helpers).  cid is the      *)
(* call_id of a tool call or result, the id of a reasoning or assistant    *)
(* item, and for a user message the number of the submission it carries    *)
(* (0 for snapshot and shell-output messages).                             *)
(***************************************************************************)
Item(type, cid, tag) == [type |-> type, cid |-> cid, tag |-> tag]

UserMessage(cid, tag)        == Item("user", cid, tag)
AssistantMessage(cid, tag)   == Item("assistant", cid, tag)
ToolCallItem(call_id, name)  == Item("function_call", call_id, name)
ToolResultMessage(call_id, text) == Item("function_call_output", call_id, text)
ReasoningItem(id)            == Item("reasoning", id, "")

NoMsg == [cid |-> 0, tag |-> None]
Payload(cid, tag) == [cid |-> cid, tag |-> tag]

(***************************************************************************)
(* Provider responses.  An output item is a message (text: "plain",        *)
(* "claims" = says a file was created/saved/written, "genfile" = holds a   *)
(* generated-file block), a function call or a reasoning item.  The        *)
(* provider numbers the items of response r: item k has id 10*r + k.       *)
(***************************************************************************)
OutMessage(text) ==
  [type |-> "message", id |-> 0, call_id |-> 0, name |-> "", text |-> text,
   args |-> [json |-> "ok", path |-> NoPath, content |-> "none", command |-> "none"]]

OutCall(name, args) ==
  [type |-> "function_call", id |-> 0, call_id |-> 0, name |-> name, text |-> "",
   args |-> args]

OutReasoning ==
  [type |-> "reasoning", id |-> 0, call_id |-> 0, name |-> "", text |-> "",
   args |-> [json |-> "ok", path |-> NoPath, content |-> "none", command |-> "none"]]

LoopItems ==
  { OutMessage("plain"), OutMessage("claims"), OutMessage("genfile"),
    OutCall("write", [json |-> "ok", path |-> <<"a.txt">>, content |-> "b", command |-> "none"]),
    OutCall("shell", [json |-> "ok", path |-> NoPath, content |-> "none", command |-> "str"]),
    OutCall("update_plan", [json |-> "ok", path |-> NoPath, content |-> "a", command |-> "none"]),
    OutReasoning }

\* environment outcomes met by the loop's tool calls and file updates
LoopEnvs(tool_name) ==
  CASE tool_name \in {"write", "genfile"} ->
         { [old |-> "a", write_ok |-> TRUE, confirm |-> TRUE, proc |-> "ok"],
           [old |-> "a", write_ok |-> FALSE, confirm |-> TRUE, proc |-> "ok"] }
    [] tool_name \in {"shell", "!"} ->
         { [old |-> "a", write_ok |-> TRUE, confirm |-> TRUE, proc |-> "ok"],
           [old |-> "a", write_ok |-> TRUE, confirm |-> TRUE, proc |-> "rejected"],
           [old |-> "a", write_ok |-> TRUE, confirm |-> TRUE, proc |-> "oserror"] }
    [] OTHER ->
         { [old |-> "a", write_ok |-> TRUE, confirm |-> TRUE, proc |-> "ok"] }

Min(a, b) == IF a <= b THEN a ELSE b

\* the output arrays a response can carry once `sent` events were delivered
Outputs(sent) ==
  UNION {[1..n -> LoopItems] : n \in 0..Min(MaxOut, MaxEvents - sent)}

StampIds(out, r) ==
  [k \in 1..Len(out) |-> [out[k] EXCEPT !.id = 10 * r + k, !.call_id = 10 * r + k]]

NoResponse == [captured |-> FALSE, output |-> <<>>]
Response(out) == [captured |-> TRUE, output |-> out]

\* run_conversation: call_id = str(raw_call_id or raw_item_id or "tool-<name>")
CallIdOf(item) ==
  IF item.call_id # 0 THEN item.call_id ELSE item.id

(***************************************************************************)
(* State.                                                                  *)
(***************************************************************************)
VARIABLES
  \* engine and call position
  pc,                          \* "idle" | "top" | "stream" | "walk" | "scan" | "followup"
  runs,                        \* calls made on the engine so far
  rc,                          \* value the last call returned (-1: none yet, -2: exception)
  jfdi_enabled,
  dog_whistle,
  \* locals of run_conversation
  conversation_items,
  pending_user_message,
  pending_context_update,
  context_dirty,
  warned_no_write,
  buffered_shell_messages,     \* number of buffered shell previews
  skip_model_request,
  pending_user_is_repeat,
  last_user_message_payload,
  last_user_message_index,     \* 0-based as in the source, -1 for None
  response,
  out_idx,                     \* position of the output walk
  pending_reasoning_queue,
  tool_call_handled,
  assistant_messages,
  scan_idx,                    \* position of the generated-file scan
  manual_mutation,
  assistant_stream_buffers,    \* deltas buffered for the assistant stream key
  \* CLIRenderer hotkey state
  hotkey_events,
  listening,
  \* Tool Runtime taken alone (SpecTool)
  tool_call,
  tool_result,
  runtime_gate,                \* the Tool Runtime in use gates mutating tools on jfdi_enabled
  \* Sandbox Executor taken alone (SpecBash)
  bash_call,
  bash_result,
  \* ToolRuntime.plan_state["plan"], a local of run_conversation
  plan_state,
  \* the streaming window's display state
  show_reasoning,              \* AIEngine.show_reasoning (settings)
  loader_started,
  reasoning_buffers,           \* keys of the engine's open reasoning buffers
  loader_thread,               \* CLIRenderer: the loader thread is alive
  renderer_reasoning_buffers,  \* CLIRenderer._reasoning_buffers: started, not finished
  finished_reasoning,          \* keys passed to finish_reasoning in this window
  \* contextualizer.read_file_slice read in a loop
  slice_file,                  \* text.split("\n") of the file
  slice_limit,
  slice_max_bytes,
  file_slice,                  \* the FileSlice the last call returned
  slice_lines,                 \* lines of all slices so far, in order
  \* the plan_update tool
  todos,                       \* runtime.plan_state["todos"]
  todos_before,                \* the stored list before the last call
  plan_update_args,            \* arguments of the last call
  plan_update_result,          \* what the last call returned
  plan_update_calls,
  \* ConversationStore and its two files
  store_file,                  \* content of file_path
  store_tmp,                   \* content of file_path.with_suffix(".tmp")
  save_pc,                     \* "idle" | "opened" | "dumped": position of save
  save_payload,                \* payload of the save in progress or last made
  store_before,                \* content of file_path when that save began
  load_result,
  store_ops,
  \* CLIRenderer hotkey queue at the level of its lock
  hotkey_lock,                 \* "free" | "loop" | the worker holding _hotkey_lock
  hotkey_deque,                \* _hotkey_events
  hotkey_thread,               \* _hotkey_thread: a worker, or None
  stop_event,                  \* the stop event each worker was started with
  worker_pc,                   \* "dead" | "test" | "select" | "enqueue" | "locked"
  worker_name,                 \* the name a worker is about to enqueue
  caller_pc,                   \* "idle" | "start_locked" | "start_thread" | "poll_locked"
  polled_events,               \* values poll_hotkey_event returned, in order
  keys_read,                   \* keystrokes the workers read
  pushed,                      \* events appended to the queue
  windows_started,             \* calls of start_hotkey_listener that started a thread
  held_window,                 \* per worker, the window open when it read its key, 0 if none was
  key_windows,                 \* per push, the window open when the key was read
  poll_windows,                \* per polled event, the window that polled it
  \* run_edit called on its own
  edit_response,               \* what the model request of run_edit gave
  edit_env,                    \* the target file and what the file system does
  edit_jfdi,                   \* jfdi_enabled at the call
  edit_result,                 \* what run_edit did and returned
  \* Orchestrator.run called on its own
  shell_argv,                  \* the command line
  shell_env,                   \* what the subprocess does
  shell_run,                   \* what Orchestrator.run did and returned
  \* the write tool called on its own
  latest_instruction,          \* runtime.latest_instruction
  write_args,                  \* the arguments of the call
  write_env,                   \* the target file and what the file system does
  write_call,                  \* what the renderer was given and what came back
  \* run_conversation between a mutation and the next model request
  loop_pc,                     \* "top" | "walk" | "scan" | "followup" | "done"
  transcript,                  \* conversation_items, by kind of item
  dirty,                       \* context_dirty
  prompt_context,              \* "" or the formatted snapshot
  pending_snapshot,            \* pending_context_update: None, "" or a snapshot
  staged_user,                 \* pending_user_message is set
  skip_request,                \* skip_model_request
  handled,                     \* tool_call_handled
  walk_left,                   \* function calls of the response not yet walked
  model_requests,              \* model requests opened
  prompts_read,                \* follow-up prompts answered
  mutation_mark,               \* transcript length at the mutation still owed a
                               \* snapshot, -1 when none is
  \* the hotkey listener over the streaming windows of run_conversation
  engine_pc,                   \* "top" | "stream" | "finally" | "join" | "walk" | "prompt" | "returned"
  exit_path,                   \* how the streaming window was left
  stdin_isatty,                \* sys.stdin.isatty()
  listener_thread,             \* self._hotkey_thread: None or a worker
  listener_stop,               \* self._hotkey_stop: None or the worker whose event it is
  listener_termios,            \* self._hotkey_termios: None or the saved attributes
  stop_is_set,                 \* per worker, stop_event.is_set()
  listener_pc,                 \* per worker: "setup" | "loop" | "restore" | "dead"
  original_attrs,              \* per worker, the attributes its closure holds
  terminal,                    \* the attributes of the terminal: "cooked" | "cbreak"
  bytes_read_at,               \* where the loop was when a worker read a byte of stdin
  windows_opened,              \* streaming windows opened
  \* the output_text events of one streaming window
  arrived,                     \* the output_text events of the stream, in arrival order
  buffer_keys,                 \* the keys of assistant_stream_buffers
  buffer_text,                 \* assistant_stream_buffers[key], <<>> when the key is absent
  renderer_calls,              \* the assistant-stream calls the renderer received, in order
  stream_exit,                 \* "open", or how the window was left: "completed" | "quit" | "retry"
  \* run_sandboxed_bash from subprocess.run on (bash_executor.py 96-143)
  stdout_raw,                  \* what the process wrote to stdout
  stderr_raw,                  \* what the process wrote to stderr
  timed_out,                   \* subprocess.run raised TimeoutExpired
  max_output_bytes,            \* the limit the caller passes
  command_result,              \* the CommandResult returned, NoCommandResult before the call
  \* the glob tool called on its own
  glob_limit,                  \* the limit argument of the call
  glob_cwd,                    \* the cwd argument of the call, NoPath when absent
  glob_listing,                \* what search_root.glob(pattern) yields, in order
  glob_exists,                 \* search_root.exists()
  glob_result,                 \* what run_glob_search did and returned, NoGlobResult before the call
  \* InlineModeRenderer.run from its loop on (inline_mode_renderer.py 96-162)
  inline_pc,                   \* where InlineModeRenderer.run is: "request", "items", "decide", "returned", "raised"
  inline_requests,             \* calls of _create_response so far
  inline_response,             \* the response being walked, NoInlineResponse before the first
  inline_idx,                  \* the output item the walk is at
  inline_tool_calls,           \* tool_calls of the current round
  inline_messages,             \* assistant_messages of the current round
  inline_rc,                   \* what run returned, -1 while it has not
  inline_error,                \* the text given to display_error, None when none
  inline_shown,                \* the text given to display_assistant_message, NoText when none
  inline_effects,              \* what the dispatched calls did: records of tool and effect
  inline_tool_rounds,          \* rounds whose response held a tool call
  inline_raised,               \* the exception that left run, None when none
  \* bookkeeping of the model
  requests,                    \* model requests opened in this run
  followups,                   \* follow-up prompts answered in this run
  serial,                      \* user submissions staged in this run
  delivered,                   \* output items delivered and keystrokes read in this run
  \* history variables read by the properties
  user_input,                  \* text the user typed in the step just taken, if any
  last_effect,                 \* file/process effect of the step just taken, if any
  last_cancel,                 \* cancellation performed by the step just taken, if any
  last_error,                  \* response.error event or exception handled by the step just taken
  exec_log,                    \* call_ids executed during the current output walk
  walk_base,                   \* transcript length when the output walk began
  len_before_user,             \* transcript length before the last user-message append
  awaiting_follow_up,          \* a quit happened and no instruction was entered since
  quit_serials,                \* submissions cancelled by quit
  cancel_causes                \* the keystrokes that caused a cancellation, in order

engine_vars == <<pc, runs, rc, jfdi_enabled, dog_whistle>>

local_vars ==
  <<conversation_items, pending_user_message, pending_context_update, context_dirty,
    warned_no_write, buffered_shell_messages, skip_model_request,
    pending_user_is_repeat, last_user_message_payload, last_user_message_index,
    response, out_idx, pending_reasoning_queue, tool_call_handled,
    assistant_messages, scan_idx, manual_mutation, assistant_stream_buffers>>

hotkey_vars == <<hotkey_events, listening>>

bash_vars == <<bash_call, bash_result>>

call_vars == <<tool_call, tool_result, runtime_gate, bash_vars>>

window_vars ==
  <<show_reasoning, loader_started, reasoning_buffers, loader_thread,
    renderer_reasoning_buffers, finished_reasoning>>

slice_vars == <<slice_file, slice_limit, slice_max_bytes, file_slice, slice_lines>>

\* state of the components that are checked on their own
todo_vars ==
  <<todos, todos_before, plan_update_args, plan_update_result, plan_update_calls>>

store_vars ==
  <<store_file, store_tmp, save_pc, save_payload, store_before, load_result,
    store_ops>>

queue_history == <<windows_started, held_window, key_windows, poll_windows>>

queue_vars ==
  <<hotkey_lock, hotkey_deque, hotkey_thread, stop_event, worker_pc, worker_name,
    caller_pc, polled_events, keys_read, pushed, queue_history>>

edit_vars == <<edit_response, edit_env, edit_jfdi, edit_result>>

shell_vars == <<shell_argv, shell_env, shell_run>>

write_vars == <<latest_instruction, write_args, write_env, write_call>>

refresh_vars ==
  <<loop_pc, transcript, dirty, prompt_context, pending_snapshot, staged_user,
    skip_request, handled, walk_left, model_requests, prompts_read, mutation_mark>>

listener_vars ==
  <<engine_pc, exit_path, stdin_isatty, listener_thread, listener_stop, listener_termios, stop_is_set, listener_pc, original_attrs, terminal, bytes_read_at, windows_opened>>

assistant_vars ==
  <<arrived, buffer_keys, buffer_text, renderer_calls, stream_exit>>

output_vars ==
  <<stdout_raw, stderr_raw, timed_out, max_output_bytes, command_result>>

glob_vars ==
  <<glob_limit, glob_cwd, glob_listing, glob_exists, glob_result>>

inline_vars ==
  <<inline_pc, inline_requests, inline_response, inline_idx, inline_tool_calls, inline_messages, inline_rc, inline_error, inline_shown, inline_effects, inline_tool_rounds, inline_raised>>

\* state of the components added below
unit_vars == <<listener_vars, assistant_vars, output_vars, glob_vars, inline_vars>>

old_vars ==
  <<slice_vars, todo_vars, store_vars, queue_vars, edit_vars, shell_vars,
    write_vars, refresh_vars>>

listener_rest == <<old_vars, assistant_vars, output_vars, glob_vars, inline_vars>>
assistant_rest == <<old_vars, listener_vars, output_vars, glob_vars, inline_vars>>
output_rest == <<old_vars, listener_vars, assistant_vars, glob_vars, inline_vars>>
glob_rest == <<old_vars, listener_vars, assistant_vars, output_vars, inline_vars>>
inline_rest == <<old_vars, listener_vars, assistant_vars, output_vars, glob_vars>>
\* end of the components added below

aux_vars ==
  <<slice_vars, todo_vars, store_vars, queue_vars, edit_vars, shell_vars,
    write_vars, refresh_vars, unit_vars>>

\* what each component leaves alone
slice_rest == <<todo_vars, store_vars, queue_vars, edit_vars, shell_vars, write_vars, refresh_vars, unit_vars>>
todo_rest == <<slice_vars, store_vars, queue_vars, edit_vars, shell_vars, write_vars, refresh_vars, unit_vars>>
store_rest == <<slice_vars, todo_vars, queue_vars, edit_vars, shell_vars, write_vars, refresh_vars, unit_vars>>
queue_rest == <<slice_vars, todo_vars, store_vars, edit_vars, shell_vars, write_vars, refresh_vars, unit_vars>>
edit_rest == <<slice_vars, todo_vars, store_vars, queue_vars, shell_vars, write_vars, refresh_vars, unit_vars>>
shell_rest ==
  <<slice_vars, todo_vars, store_vars, queue_vars, edit_vars, write_vars,
    refresh_vars,
    unit_vars>>
write_rest ==
  <<slice_vars, todo_vars, store_vars, queue_vars, edit_vars, shell_vars,
    refresh_vars,
    unit_vars>>

tool_vars == <<call_vars, plan_state, window_vars, aux_vars>>

count_vars == <<requests, followups, serial, delivered>>

step_vars == <<user_input, last_effect, last_cancel, last_error>>

history_vars ==
  <<exec_log, walk_base, len_before_user,
    awaiting_follow_up, quit_serials, cancel_causes>>

vars ==
  <<engine_vars, local_vars, hotkey_vars, tool_vars, count_vars, step_vars,
    history_vars>>

\* everything but the components that are checked on their own
core_vars ==
  <<engine_vars, local_vars, hotkey_vars, call_vars, plan_state, window_vars,
    count_vars, step_vars, history_vars>>

(***************************************************************************)
(* contextualizer.read_file_slice (lines 105-169).  A line of the file is  *)
(* its position in the file and its length; the file is ASCII, so that a   *)
(* line's size in bytes is its length.                                     *)
(***************************************************************************)
MAX_LINE_LENGTH == 2000
MAX_READ_BYTES == 51200

\* longest file, in lines, and the line lengths, limits and byte budgets tried
MaxLines == 3
LineLengths == {0, 2, 2001}
SliceLimits == {1, 2}
SliceMaxBytes == {1, 3, MAX_READ_BYTES}

SliceLine(tag, len, clipped) == [tag |-> tag, len |-> len, clipped |-> clipped]

\* the files: text.split("\n") has at least one element
SliceFiles ==
  UNION { { [k \in 1..n |-> SliceLine(k, lens[k], FALSE)] :
              lens \in [1..n -> LineLengths] } : n \in 1..MaxLines }

\* line if len(line) <= MAX_LINE_LENGTH else line[:MAX_LINE_LENGTH] + "..."
clip(line) ==
  IF line.len <= MAX_LINE_LENGTH THEN line
  ELSE SliceLine(line.tag, MAX_LINE_LENGTH + 3, TRUE)

\* the for loop of lines 145-151 over all_lines[safe_offset : safe_offset + limit]
RECURSIVE take_lines(_, _, _, _)
take_lines(rest, raw, bytes_used, max_bytes) ==
  IF rest = <<>> THEN [lines |-> raw, truncated_by_bytes |-> FALSE]
  ELSE LET clipped == clip(Head(rest))
           size == clipped.len + (IF raw # <<>> THEN 1 ELSE 0)
       IN  IF bytes_used + size > max_bytes
           THEN [lines |-> raw, truncated_by_bytes |-> TRUE]
           ELSE take_lines(Tail(rest), Append(raw, clipped), bytes_used + size,
                           max_bytes)

FileSlice(offset, limit, total_lines, lines, truncated, truncated_by_bytes) ==
  [offset |-> offset, limit |-> limit, total_lines |-> total_lines,
   lines |-> lines, truncated |-> truncated,
   truncated_by_bytes |-> truncated_by_bytes]

\* FileSlice.last_line_read
last_line_read(slice) == slice.offset + Len(slice.lines)

read_file_slice(all_lines, offset, limit, max_bytes) ==
  LET total_lines == Len(all_lines)
      safe_offset == IF offset < 0 THEN 0
                     ELSE IF offset > total_lines THEN total_lines ELSE offset
      stop == IF safe_offset + limit > total_lines THEN total_lines
              ELSE safe_offset + limit
      taken == take_lines(SubSeq(all_lines, safe_offset + 1, stop), <<>>, 0,
                          max_bytes)
      truncated == \/ taken.truncated_by_bytes
                   \/ safe_offset + Len(taken.lines) < total_lines
  IN  FileSlice(safe_offset, limit, total_lines, taken.lines, truncated,
                taken.truncated_by_bytes)

\* no call made yet
NoSlice == FileSlice(-1, 0, 0, <<>>, TRUE, FALSE)

SliceIdle ==
  /\ slice_file = <<>>
  /\ slice_limit = 0
  /\ slice_max_bytes = 0
  /\ file_slice = NoSlice
  /\ slice_lines = <<>>

(***************************************************************************)
(* The plan_update tool (run_plan_update), as the specification describes  *)
(* it: PlanState.todos is an ordered list of {id, content, status}; a call *)
(* validates every todo and then replaces the list or merges by id.        *)
(***************************************************************************)
ALLOWED_STATUSES == {"pending", "in_progress", "completed"}

\* calls of plan_update made on one runtime
MaxPlanCalls == 2
\* longest todos argument of one call
MaxTodos == 2

Todo(id, content, status) == [id |-> id, content |-> content, status |-> status]

TodoInputs ==
  { Todo(id, content, status) :
      id \in {"", "a", "b", "c"}, content \in {"A", "B2"},
      status \in {"pending", "in_progress", "done"} }

PlanUpdateArgs ==
  [todos : UNION {[1..n -> TodoInputs] : n \in 0..MaxTodos}, replace : BOOLEAN]

NoPlanUpdateArgs == [todos |-> <<>>, replace |-> TRUE]

ids(list) == {list[k].id : k \in 1..Len(list)}

\* faulty variant: every status is accepted
any_status(status) == TRUE

valid_status(status) == status \in ALLOWED_STATUSES

\* the first complaint about the todos of a call, None when they are valid
validate_todos(list) ==
  IF \E k \in 1..Len(list) : list[k].id = ""
  THEN "error: todo is missing an id"
  ELSE IF \E j, k \in 1..Len(list) : j # k /\ list[j].id = list[k].id
  THEN "error: duplicate todo id"
  ELSE IF \E k \in 1..Len(list) : ~valid_status(list[k].status)
  THEN "error: todo has invalid status"
  ELSE None

RECURSIVE select_new(_, _)
select_new(updates, known) ==
  IF updates = <<>> THEN <<>>
  ELSE IF Head(updates).id \in known THEN select_new(Tail(updates), known)
  ELSE <<Head(updates)>> \o select_new(Tail(updates), known)

\* faulty variant: the updates are appended to the stored list
merge_appends(stored, updates) == stored \o updates

\* replace=false: existing ids are updated in place, new ids are appended
merge_todos(stored, updates) ==
  [k \in 1..Len(stored) |->
     IF \E j \in 1..Len(updates) : updates[j].id = stored[k].id
     THEN updates[CHOOSE j \in 1..Len(updates) : updates[j].id = stored[k].id]
     ELSE stored[k]]
  \o select_new(updates, ids(stored))

\* [result, mutated, todos]
run_plan_update(args, stored) ==
  LET complaint == validate_todos(args.todos) IN
  IF complaint # None
  THEN [result |-> complaint, mutated |-> FALSE, todos |-> stored]
  ELSE [result |-> "plan updated", mutated |-> FALSE,
        todos |-> IF args.replace THEN args.todos
                  ELSE merge_todos(stored, args.todos)]

PlanIdle ==
  /\ todos = <<>>
  /\ todos_before = <<>>
  /\ plan_update_args = NoPlanUpdateArgs
  /\ plan_update_result = None
  /\ plan_update_calls = 0

(***************************************************************************)
(* conversation_store.ConversationStore (lines 29-91).  A file is what a   *)
(* reader finds in it: nothing, a JSON object with path, items and plan,   *)
(* or one of the contents load has to cope with.                           *)
(***************************************************************************)
\* store operations (save steps, loads, outside writes) in one behaviour
MaxStoreOps == 6

FileContent(kind, path, items, plan) ==
  [kind |-> kind, path |-> path, items |-> items, plan |-> plan]

Absent == FileContent("absent", None, None, None)

\* json.dump of {"path": str(self.workspace), "items": items, "plan": plan}
Payload_(items, plan) == FileContent("json", "workspace", items, plan)

\* what save is called with
SavePayloads == {Payload_(items, plan) : items \in {"i1", "i2"}, plan \in {None, "p1"}}

\* a file interrupted in the middle of json.dump
Partial == FileContent("partial", None, None, None)

\* contents that do not come from a completed save: a file that cannot be
\* opened, text that is not JSON, bytes that are not UTF-8, JSON that is not
\* an object, an object saved for another workspace, items that are no list,
\* a plan that is no string
ForeignContents ==
  { FileContent("unreadable", None, None, None),
    FileContent("invalid_json", None, None, None),
    FileContent("invalid_utf8", None, None, None),
    FileContent("not_dict", None, None, None),
    FileContent("json", "elsewhere", "i1", "p1"),
    FileContent("json", "workspace", "not_list", "p1"),
    FileContent("json", "workspace", "i1", "not_str") }

Loaded(raised, items, plan) == [raised |-> raised, items |-> items, plan |-> plan]

\* ([], None)
LoadedNothing == Loaded(None, "[]", None)

NotLoaded == Loaded(None, None, None)

\* ConversationStore.load, lines 47-66
load(file) ==
  CASE file.kind = "absent" -> LoadedNothing
    [] file.kind = "unreadable" -> LoadedNothing
    [] file.kind \in {"invalid_json", "partial"} -> LoadedNothing
    [] file.kind = "invalid_utf8" -> Loaded("UnicodeDecodeError", None, None)
    [] file.kind = "not_dict" -> LoadedNothing
    [] OTHER ->
         IF file.path # "workspace" THEN LoadedNothing
         ELSE IF file.items = "not_list" THEN LoadedNothing
         ELSE Loaded(None, file.items,
                     IF file.plan = "not_str" THEN None ELSE file.plan)

StoreIdle ==
  /\ store_file = Absent
  /\ store_tmp = Absent
  /\ save_pc = "idle"
  /\ save_payload = Absent
  /\ store_before = Absent
  /\ load_result = NotLoaded
  /\ store_ops = 0

(***************************************************************************)
(* CLIRenderer hotkey queue, thread by thread (cli_renderer.py 63-66,      *)
(* 78-178).  stop_hotkey_listener forgets the thread after a join of at    *)
(* most 0.2 s, so a worker of an earlier window may still be running when  *)
(* the next one starts: Workers holds two of them.                         *)
(***************************************************************************)
MaxKeys == 3
Workers == {"worker1", "worker2"}
KeyCodes == {"q", "R", "x"}
HotkeyNames == {"quit", "retry"}

\* worker: q/Q is quit, r/R is retry, any other byte is dropped
key_name(key_code) ==
  IF key_code \in {"q", "Q"} THEN "quit"
  ELSE IF key_code \in {"r", "R"} THEN "retry"
  ELSE None

\* an event in the queue: its name, stamped with its position among the pushes
Pushed(name, nth) == [name |-> name, nth |-> nth]

\* deque.pop(): the newest event
pop(queue) ==
  [value |-> queue[Len(queue)], rest |-> SubSeq(queue, 1, Len(queue) - 1)]

\* deque.popleft(): the oldest event
popleft(queue) == [value |-> Head(queue), rest |-> Tail(queue)]

QueueIdle ==
  /\ hotkey_lock = "free"
  /\ hotkey_deque = <<>>
  /\ hotkey_thread = None
  /\ stop_event = [w \in Workers |-> FALSE]
  /\ worker_pc = [w \in Workers |-> "dead"]
  /\ worker_name = [w \in Workers |-> None]
  /\ caller_pc = "idle"
  /\ polled_events = <<>>
  /\ keys_read = 0
  /\ pushed = 0
  /\ windows_started = 0
  /\ held_window = [w \in Workers |-> 0]
  /\ key_windows = <<>>
  /\ poll_windows = <<>>

(***************************************************************************)
(* Edit mode (ai_engine_main.py, run_edit 670-789, _strip_code_fence       *)
(* 987-995).  Texts are sequences of characters.                           *)
(***************************************************************************)
\* the backquote character, which a TLA+ string cannot hold
BACKQUOTE == "backquote"
FENCE == <<BACKQUOTE, BACKQUOTE, BACKQUOTE>>

\* str.strip("\n")
RECURSIVE strip_newlines(_)
strip_newlines(text) ==
  IF text = <<>> THEN <<>>
  ELSE IF Head(text) = "\n" THEN strip_newlines(Tail(text))
  ELSE IF text[Len(text)] = "\n" THEN strip_newlines(SubSeq(text, 1, Len(text) - 1))
  ELSE text

\* text.find("\n"), from 1; 0 for Python's -1
find_newline(text) ==
  IF \E k \in DOMAIN text : text[k] = "\n"
  THEN CHOOSE k \in DOMAIN text :
         text[k] = "\n" /\ \A j \in 1..(k - 1) : text[j] # "\n"
  ELSE 0

\* text.rsplit(FENCE, 1)[0]: what precedes the last fence, or all of it
before_last_fence(text) ==
  LET at == {k \in 1..(Len(text) - 2) : SubSeq(text, k, k + 2) = FENCE} IN
  IF at = {} THEN text
  ELSE SubSeq(text, 1, (CHOOSE k \in at : \A j \in at : j <= k) - 1)

strip_code_fence(raw_response) ==
  LET text == Strip(raw_response) IN
  IF StartsWith(text, FENCE)
  THEN IF find_newline(text) = 0 THEN <<>>
       ELSE strip_newlines(
              before_last_fence(SubSeq(text, find_newline(text) + 1, Len(text))))
  ELSE strip_newlines(text)

\* the text of a file or of an answer, as the file model names it
text_of(chars) == IF chars = <<>> THEN "" ELSE chars[1]

EditResponse(raised, content) == [raised |-> raised, content |-> content]

EditContents ==
  { <<>>, <<"\n">>, <<"a">>, <<"b">>, FENCE, FENCE \o <<"\n">> \o FENCE,
    FENCE \o <<"p", "y", "\n">> \o FENCE,
    FENCE \o <<"\n", "a", "\n">> \o FENCE, FENCE \o <<"\n", "b">> }

EditResponses ==
  {EditResponse(TRUE, <<>>)} \cup {EditResponse(FALSE, c) : c \in EditContents}

\* the target: a directory, missing, unreadable or a file holding "a"
EditEnvs ==
  [old : {"dir", "missing", "a", "unreadable"}, write_ok : BOOLEAN, confirm : {TRUE},
   proc : {"ok", "nonzero", "rejected"}]

EditResult(code, effects, requested, reviewed, rm) ==
  [rc |-> code, effects |-> effects, requested |-> requested, reviewed |-> reviewed,
   rm |-> rm]

NoEditResult == EditResult(-1, {}, FALSE, FALSE, FALSE)

run_edit(jfdi, answer, env) ==
  IF ~jfdi THEN EditResult(1, {}, FALSE, FALSE, FALSE)
  ELSE IF env.old \in {"dir", "unreadable"} THEN EditResult(1, {}, FALSE, FALSE, FALSE)
  ELSE IF answer.raised \/ answer.content = <<>>
  THEN EditResult(1, {}, TRUE, FALSE, FALSE)
  ELSE
    LET current_text  == IF env.old = "missing" THEN "" ELSE env.old
        proposed_text == text_of(strip_code_fence(answer.content))
    IN
    IF proposed_text = "" THEN EditResult(1, {}, TRUE, FALSE, FALSE)
    ELSE IF proposed_text = current_text THEN EditResult(0, {}, TRUE, FALSE, FALSE)
    ELSE
      LET status == review_file_update(current_text, proposed_text, FALSE, env)
          delete == status.result = "delete_requested"
          final  == IF delete THEN delete_path_via_shell(env) ELSE status
      IN EditResult(IF final.result \in {"applied", "no_change"} THEN 0 ELSE 1,
                    final.effects, TRUE, TRUE, delete)

EditIdle ==
  /\ edit_response = EditResponse(TRUE, <<>>)
  /\ edit_env = [old |-> "missing", write_ok |-> TRUE, confirm |-> TRUE, proc |-> "ok"]
  /\ edit_jfdi = FALSE
  /\ edit_result = NoEditResult

(***************************************************************************)
(* Orchestrator.run up to the shell shortcut (orchestrator.py 56-72,       *)
(* 129-188, 370-396).  Arguments are strings of characters; the process    *)
(* runs in the repository root, base_root.                                 *)
(***************************************************************************)
MaxArgs == 3

PRIMARY_FLAG_SET == { <<"-", "h">> }

ShellArgs ==
  { <<"!">>, <<"!", "l", "s">>, <<"!", " ">>, <<"!", "s", "u", "d", "o">>,
    <<"-", "a">>, <<>>, <<"p", "k", "g">>, <<"f">>, <<"/", "e", "t", "c">>,
    <<"n", "o">>, <<"-", "h">> }

\* the file system: what Path(arg).expanduser() names
PathEntry(kind, path) == [kind |-> kind, path |-> path]

path_entry(arg) ==
  CASE arg = <<>> -> PathEntry("dir", <<".">>)
    [] arg = <<"p", "k", "g">> -> PathEntry("dir", <<"pkg">>)
    [] arg = <<"f">> -> PathEntry("file", <<"f">>)
    [] arg = <<"/", "e", "t", "c">> -> PathEntry("dir", <<"/", "etc">>)
    [] OTHER -> PathEntry("missing", <<>>)

\* scope is None: no path was given
NoScope == PathEntry("none", <<>>)

startswith_bang(arg) == arg # <<>> /\ arg[1] = "!"

nonempty(item) == item # <<>>

\* " ".join(parts)
RECURSIVE join(_)
join(parts) ==
  IF parts = <<>> THEN <<>>
  ELSE IF Len(parts) = 1 THEN parts[1]
  ELSE parts[1] \o <<" ">> \o join(Tail(parts))

compose_shell_command(head, tail) ==
  LET stripped == Strip(head) IN
  join((IF stripped # <<>> THEN <<stripped>> ELSE <<>>) \o SelectSeq(tail, nonempty))

ShellInvocation(found, command, scope) ==
  [found |-> found, command |-> command, scope |-> scope]

\* scope: the first argument as a path, or NoScope
detect_shell_invocation(args) ==
  IF args = <<>> THEN ShellInvocation(FALSE, <<>>, NoScope)
  ELSE IF startswith_bang(args[1])
  THEN ShellInvocation(TRUE, compose_shell_command(Tail(args[1]), Tail(args)), NoScope)
  ELSE IF Len(args) >= 2 /\ startswith_bang(args[2])
          /\ path_entry(args[1]).kind # "missing"
  THEN ShellInvocation(TRUE,
                       compose_shell_command(Tail(args[2]), Tail(Tail(args))),
                       path_entry(args[1]))
  ELSE ShellInvocation(FALSE, <<>>, NoScope)

\* faulty variant: the command always runs in the repository root
repo_root_cwd(scope) == base_root

\* _run_shell_command, lines 155-165: the directory the command runs in
scope_cwd(scope) ==
  IF scope = NoScope THEN base_root
  ELSE IF scope.kind = "file"
  THEN resolve(base_root, SubSeq(resolve(base_root, scope.path), 1,
                                 Len(resolve(base_root, scope.path)) - 1))
  ELSE resolve(base_root, scope.path)

ShellRun(route, code, called, result) ==
  [route |-> route, rc |-> code, called |-> called, result |-> result,
   model_request |-> FALSE]

NoShellRun == ShellRun("none", -1, FALSE, BashResult(None, FALSE, <<>>, 0))

\* _run_shell_command
run_shell_command(command, scope, env) ==
  LET result == sandboxed_bash(command, scope_cwd(scope), base_root, env) IN
  IF result.raised # None THEN ShellRun("shell", 1, TRUE, result)
  ELSE ShellRun("shell", result.exit_code, TRUE, result)

\* Orchestrator.run: primary flags, then the shell shortcut, then the rest
orchestrator_run(arg_list, env) ==
  IF arg_list # <<>> /\ \A k \in DOMAIN arg_list : arg_list[k] \in PRIMARY_FLAG_SET
  THEN ShellRun("flags", 0, FALSE, NoShellRun.result)
  ELSE
    LET shell_invocation == detect_shell_invocation(arg_list) IN
    IF shell_invocation.found
    THEN IF Strip(shell_invocation.command) = <<>>
         THEN ShellRun("shell", 1, FALSE, NoShellRun.result)
         ELSE run_shell_command(Strip(shell_invocation.command),
                                shell_invocation.scope, env)
    ELSE ShellRun("other", -1, FALSE, NoShellRun.result)

ArgLists == UNION {[1..n -> ShellArgs] : n \in 0..MaxArgs}

ShellEnvs == {e \in BashEnvs : e.is_dir /\ e.stdout = "none" /\ e.stderr = "none"}

ShellIdle ==
  /\ shell_argv = <<>>
  /\ shell_env = [is_dir |-> TRUE, proc |-> "ok", stdout |-> "none", stderr |-> "none"]
  /\ shell_run = NoShellRun

(***************************************************************************)
(* instruction_implies_write (ai_engine_tools.py 289-296) and the write     *)
(* handler that passes its value on (380-398).                             *)
(***************************************************************************)
\* the alternatives of the pattern \b(...)\b
WRITE_PATTERN_WORDS ==
  {
    <<"w", "r", "i", "t", "e">>, <<"c", "r", "e", "a", "t", "e">>,
    <<"a", "d", "d">>, <<"g", "e", "n", "e", "r", "a", "t", "e">>,
    <<"p", "r", "o", "d", "u", "c", "e">>, <<"s", "a", "v", "e">>,
    <<"a", "p", "p", "e", "n", "d">>, <<"c", "o", "m", "m", "i", "t">>,
    <<"a", "p", "p", "l", "y">>, <<"p", "a", "t", "c", "h">>,
    <<"u", "p", "d", "a", "t", "e">>, <<"m", "a", "k", "e">>,
    <<"b", "u", "i", "l", "d">>, <<"d", "r", "a", "f", "t">>,
    <<"a", "d", "d", " ", "i", "t">>, <<"a", "d", "d", "i", "t">>,
    <<"w", "r", "i", "t", "e", "i", "t">> }

\* \w of the pattern, over the characters the instructions are made of
is_word_char(c) ==
  c \in {"a", "b", "c", "d", "e", "f", "g", "h", "i", "k", "l", "m", "n", "o", "p",
         "r", "s", "t", "u", "v", "w", "y", "_"}

\* faulty variant: the alternatives match anywhere
no_boundary(text, k) == TRUE

\* \b at position k: between text[k - 1] and text[k], one is a word character
\* and the other is not, the ends of the text counting as not
word_boundary(text, k) ==
  (k > 1 /\ is_word_char(text[k - 1])) # (k <= Len(text) /\ is_word_char(text[k]))

\* re.search(pattern, text.lower()) finds a match
instruction_implies_write(text) ==
  LET normalized == Lower(text) IN
  \E word \in WRITE_PATTERN_WORDS : \E k \in 1..Len(normalized) :
    /\ k + Len(word) - 1 <= Len(normalized)
    /\ SubSeq(normalized, k, k + Len(word) - 1) = word
    /\ word_boundary(normalized, k)
    /\ word_boundary(normalized, k + Len(word))

Instructions ==
  {
    <<"p", "l", "e", "a", "s", "e", " ", "w", "r", "i", "t", "e", " ", "f", "o", "o", ".", "p", "y">>,
    <<"w", "h", "a", "t", " ", "d", "o", "e", "s", " ", "f", "o", "o", ".", "p", "y", " ", "d", "o", "?">>,
    <<"r", "e", "w", "r", "i", "t", "e", " ", "f", "o", "o">>,
    <<"a", "d", "d", "r", "e", "s", "s">>, <<"A", "d", "d", " ", "i", "t">>,
    <<"A", "D", "D">>, <<"w", "r", "i", "t", "e", "i", "t">>,
    <<"a", "d", "d", "i", "t", "i", "o", "n", "a", "l">>,
    <<"u", "p", "d", "a", "t", "e", "d">>, <<"P", "A", "T", "C", "H", ".">>,
    <<"r", "e", "-", "w", "r", "i", "t", "e">>,
    <<"a", "d", "d", "_", "o", "n", "e">>, <<>>, <<"d", "r", "a", "f", "t">>,
    <<"a", " ", "m", "a", "k", "e">> }

WriteArgs ==
  [json : {"ok"}, path : {NoPath, <<"a.txt">>, <<"/", "etc">>},
   content : {"none", "a", "b"}, command : {"none"}]

WriteEnvs == {e \in ToolEnvs("write") : e.proc = "ok" /\ e.confirm}

WriteCall(reviewed, auto_apply, status) ==
  [reviewed |-> reviewed, auto_apply |-> auto_apply, status |-> status]

NoWriteCall == WriteCall(FALSE, FALSE, Ret("none", FALSE, {}))

\* apply_file_update reaches renderer.review_file_update
review_reached(args, runtime, env) ==
  /\ relative_to(resolve(default_root, args.path), base_root)
  /\ env.old # "unreadable"

\* handle_tool_call for write, lines 380-398, with what the renderer is given
handle_write(args, runtime, instruction, env) ==
  IF args.path = NoPath \/ args.content = "none"
  THEN WriteCall(FALSE, FALSE, Ret("error: missing file path or contents", FALSE, {}))
  ELSE LET auto_apply == instruction_implies_write(instruction)
           status == apply_file_update(args, runtime, auto_apply, env)
       IN  WriteCall(review_reached(args, runtime, env),
                     review_reached(args, runtime, env) /\ auto_apply,
                     [status EXCEPT !.mutated = (status.result = "applied")])

WriteIdle ==
  /\ latest_instruction = <<>>
  /\ write_args = [json |-> "ok", path |-> NoPath, content |-> "none",
                   command |-> "none"]
  /\ write_env = [old |-> "missing", write_ok |-> TRUE, confirm |-> TRUE,
                  proc |-> "ok"]
  /\ write_call = NoWriteCall

refresh_rest ==
  <<slice_vars, todo_vars, store_vars, queue_vars, edit_vars, shell_vars,
    write_vars,
    unit_vars>>

\* run_conversation entered: lines 139-161
RefreshIdle ==
  /\ loop_pc = "top"
  /\ transcript = <<>>
  /\ dirty = FALSE
  /\ prompt_context = "snapshot"
  /\ pending_snapshot = None
  /\ staged_user = TRUE
  /\ skip_request = FALSE
  /\ handled = FALSE
  /\ walk_left = 0
  /\ model_requests = 0
  /\ prompts_read = 0
  /\ mutation_mark = -1


(***************************************************************************)
(* The hotkey listener over the streaming windows (ai_engine_main.py       *)
(* 211-406, cli_renderer.py 84-172).  The terminal is "cooked" outside     *)
(* the listener and "cbreak" once a worker has called tty.setcbreak.       *)
(***************************************************************************)
MaxWindows == 3

\* the ways out of the try block of lines 211-406
ExitPaths == {"normal", "quit", "retry", "error", "interrupt", "exception"}

\* where run_conversation goes from the finally clause
after_window(path) ==
  CASE path = "normal"    -> {"walk", "top"}
    [] path = "quit"      -> {"prompt"}
    [] path = "retry"     -> {"top"}
    [] path = "error"     -> {"walk", "top"}
    [] path = "interrupt" -> {"returned"}
    [] path = "exception" -> {"returned"}

ListenerIdle ==
  /\ engine_pc = "top"
  /\ exit_path = None
  /\ stdin_isatty = TRUE
  /\ listener_thread = None
  /\ listener_stop = None
  /\ listener_termios = None
  /\ stop_is_set = [w \in Workers |-> FALSE]
  /\ listener_pc = [w \in Workers |-> "dead"]
  /\ original_attrs = [w \in Workers |-> None]
  /\ terminal = "cooked"
  /\ bytes_read_at = {}
  /\ windows_opened = 0


(***************************************************************************)
(* The output_text events of one streaming window (ai_engine_main.py       *)
(* 314-345).  A text is a sequence of characters; a key is                 *)
(* "item_id:content_index".                                                *)
(***************************************************************************)
MaxStreamEvents == 4

AssistantKeys == {"msg_1:0", "msg_2:0"}

DeltaTexts == { <<>>, <<"a">>, <<"b">> }

DoneTexts == { <<>>, <<"a", "b">>, <<"z">> }

StreamEvent(type, key, text) == [type |-> type, key |-> key, text |-> text]

OutputTextEvents ==
  {StreamEvent("delta", k, t) : k \in AssistantKeys, t \in DeltaTexts}
    \cup {StreamEvent("done", k, t) : k \in AssistantKeys, t \in DoneTexts}

RendererCall(op, key, text) == [op |-> op, key |-> key, text |-> text]

\* faulty variant: the buffered deltas win over the text of the done event
buffer_first(final_text, buffered) ==
  IF buffered # <<>> THEN buffered ELSE final_text

\* line 334: stream_text = final_text or buffer_text
stream_text(final_text, buffered) ==
  IF final_text # <<>> THEN final_text ELSE buffered

AssistantIdle ==
  /\ arrived = <<>>
  /\ buffer_keys = {}
  /\ buffer_text = [k \in AssistantKeys |-> <<>>]
  /\ renderer_calls = <<>>
  /\ stream_exit = "open"


(***************************************************************************)
(* The output of run_sandboxed_bash (bash_executor.py 96-143).  A text is  *)
(* a sequence of characters; a character is one to four bytes of UTF-8.    *)
(***************************************************************************)
MaxTextLen == 2

OutputLimits == {1, 2, 3}

\* an ASCII letter, e-acute, the euro sign, an emoji
OutputChars == {"a", "U+00E9", "U+20AC", "U+1F600"}

REPLACEMENT == "U+FFFD"

\* len(c.encode("utf-8"))
utf8_width(c) ==
  CASE c = "U+00E9" -> 2
    [] c = "U+20AC" -> 3
    [] c = "U+FFFD" -> 3
    [] c = "U+1F600" -> 4
    [] OTHER -> 1

\* len(text.encode("utf-8"))
RECURSIVE utf8_len(_)
utf8_len(text) ==
  IF text = <<>> THEN 0 ELSE utf8_width(Head(text)) + utf8_len(Tail(text))

\* encoded[:limit].decode("utf-8", errors="replace"): the characters that fit
\* whole, and one U+FFFD for the bytes of a character that was cut
RECURSIVE decode_prefix(_, _)
decode_prefix(text, limit) ==
  IF text = <<>> \/ limit = 0 THEN <<>>
  ELSE IF utf8_width(Head(text)) <= limit
  THEN <<Head(text)>> \o decode_prefix(Tail(text), limit - utf8_width(Head(text)))
  ELSE <<REPLACEMENT>>

Truncated(text, cut) == [text |-> text, cut |-> cut]

\* _truncate, lines 134-140
truncate_output(text, limit) ==
  IF utf8_len(text) <= limit THEN Truncated(text, FALSE)
  ELSE Truncated(decode_prefix(text, limit), TRUE)

TIMED_OUT ==
  <<"\n", "C", "o", "m", "m", "a", "n", "d", " ", "t", "i", "m", "e", "d", " ",
    "o", "u", "t">>

CommandResult(exit_code, stdout, stderr, truncated) ==
  [exit_code |-> exit_code, stdout |-> stdout, stderr |-> stderr,
   truncated |-> truncated]

NoCommandResult == CommandResult(-1, <<>>, <<>>, FALSE)

\* lines 108-151: the result of a command that was run
result_of_run(out, err, expired, limit) ==
  IF expired
  THEN CommandResult(124, out, err \o TIMED_OUT, FALSE)
  ELSE CommandResult(0, truncate_output(out, limit).text,
                     truncate_output(err, limit).text,
                     truncate_output(out, limit).cut \/ truncate_output(err, limit).cut)

OutputTexts == UNION {[1..n -> OutputChars] : n \in 0..MaxTextLen}

OutputIdle ==
  /\ stdout_raw = <<>>
  /\ stderr_raw = <<>>
  /\ timed_out = FALSE
  /\ max_output_bytes = 1
  /\ command_result = NoCommandResult


(***************************************************************************)
(* run_glob_search (ai_engine_tools.py 654-716) for a pattern that is a    *)
(* non-empty string.  The limit argument is absent, an integer or a value  *)
(* int() refuses.                                                          *)
(***************************************************************************)
DEFAULT_GLOB_LIMIT == 200
MAX_GLOB_LIMIT == 1000

NoLimit == [kind |-> "absent", value |-> 0]
BadValue == [kind |-> "bad", value |-> 0]
IntValue(n) == [kind |-> "int", value |-> n]

GlobLimits ==
  {NoLimit, BadValue} \cup {IntValue(n) : n \in {-1, 0, 1, 2, 1000, 1001, 5000}}

\* inside the scope, the project root, above the project, through the link,
\* a sibling of the project root
GlobCwds ==
  { NoPath, <<"sub">>, <<"..">>, <<"..", "..">>, <<"ln">>, <<"/", "projx">> }

\* how many paths the pattern matches under search_root
ListingSizes == {0, 3, 250, 1200}

\* the k-th match of the pattern: with links, every third match is reached
\* through the link that leaves the project
glob_candidate(search_root, k, links) ==
  IF links /\ k % 3 = 1
  THEN search_root \o <<"ln", ToString(k)>>
  ELSE search_root \o <<ToString(k)>>

GlobListings ==
  { [k \in 1..n |-> [n |-> k, links |-> links]] : n \in ListingSizes, links \in BOOLEAN }

\* faulty variant: the limit is taken as given
limit_as_given(limit_value) ==
  IF limit_value.kind = "absent" THEN IntValue(DEFAULT_GLOB_LIMIT)
  ELSE IF limit_value.kind = "bad" THEN BadValue
  ELSE IF limit_value.value < 1 THEN BadValue
  ELSE limit_value

\* lines 660-671: the limit in force, or BadValue for the two errors
effective_limit(limit_value) ==
  IF limit_value.kind = "absent" THEN IntValue(DEFAULT_GLOB_LIMIT)
  ELSE IF limit_value.kind = "bad" THEN BadValue
  ELSE IF limit_value.value < 1 THEN BadValue
  ELSE IF limit_value.value > MAX_GLOB_LIMIT THEN IntValue(MAX_GLOB_LIMIT)
  ELSE limit_value

GlobResult(result, matches, scanned) ==
  [result |-> result, matches |-> matches, scanned |-> scanned]

NoGlobResult == GlobResult("none", <<>>, FALSE)

\* lines 695-704: the resolved candidates that lie inside base_root, up to
\* the limit
collect_matches(search_root, listing, limit) ==
  LET resolved == [k \in DOMAIN listing |->
                     resolve_from(<<>>, glob_candidate(search_root, listing[k].n,
                                                       listing[k].links))]
      Inside(p) == relative_to(p, base_root)
      kept == SelectSeq(resolved, Inside)
  IN  SubSeq(kept, 1, IF Len(kept) < limit THEN Len(kept) ELSE limit)

\* run_glob_search from the limit on, with what the directory holds
glob_search(limit_value, cwd_arg, listing, exists) ==
  LET limit == effective_limit(limit_value)
      search_root == IF cwd_arg = NoPath THEN default_root
                     ELSE resolve(default_root, cwd_arg)
  IN
  IF limit = BadValue
  THEN GlobResult(IF limit_value.kind = "bad" THEN "error: limit must be an integer"
                  ELSE "error: limit must be at least 1", <<>>, FALSE)
  ELSE IF cwd_arg # NoPath /\ ~relative_to(search_root, base_root)
  THEN GlobResult("error: cwd outside project root", <<>>, FALSE)
  ELSE IF ~exists THEN GlobResult("error: cwd does not exist", <<>>, FALSE)
  ELSE LET matches == collect_matches(search_root, listing, limit.value) IN
       IF matches = <<>> THEN GlobResult("no matches", <<>>, TRUE)
       ELSE GlobResult("matches", matches, TRUE)

GlobIdle ==
  /\ glob_limit = NoLimit
  /\ glob_cwd = NoPath
  /\ glob_listing = <<>>
  /\ glob_exists = TRUE
  /\ glob_result = NoGlobResult


(***************************************************************************)
(* Inline mode: InlineModeRenderer.run from the construction of its        *)
(* runtime on.  A response is a failure of the request or a sequence of    *)
(* output items; a message item holds content blocks, a call item a tool   *)
(* name with its arguments and the outcome the file system and the         *)
(* subprocess will have.                                                   *)
(***************************************************************************)
max_tool_rounds == 6

MaxOutputItems == 2

NoText == <<>>

Block(type, text) == [type |-> type, text |-> text]

\* a message item with the content blocks given
MessageItem(content) ==
  [type |-> "message", content |-> content, name |-> None,
   args |-> [json |-> "ok", path |-> NoPath, content |-> "none", command |-> "none"],
   env |-> [old |-> "a", write_ok |-> TRUE, confirm |-> TRUE, proc |-> "ok"]]

\* a tool_call or function_call item
CallItem(type, name, args, env) ==
  [type |-> type, content |-> <<>>, name |-> name, args |-> args, env |-> env]

\* an item of another type (reasoning)
OtherItem == [MessageItem(<<>>) EXCEPT !.type = "reasoning"]

InlineArgs(json, content, command) ==
  [json |-> json, path |-> <<"a.txt">>, content |-> content, command |-> command]

InlineEnv(proc) == [old |-> "a", write_ok |-> TRUE, confirm |-> TRUE, proc |-> proc]

\* the items a response is made of: an answer, a refusal, a blank text,
\* reasoning, and calls of advertised and unadvertised tools
InlineItems ==
  { MessageItem(<<Block("output_text", <<"o", "k">>)>>),
    MessageItem(<<Block("refusal", <<"n", "o">>)>>),
    MessageItem(<<Block("output_text", <<" ">>)>>),
    OtherItem,
    CallItem("tool_call", "read_file", InlineArgs("ok", "none", "none"), InlineEnv("ok")),
    CallItem("function_call", "read_file", InlineArgs("bad", "none", "none"), InlineEnv("ok")),
    CallItem("function_call", "write", InlineArgs("ok", "b", "none"), InlineEnv("ok")),
    CallItem("function_call", "write_file", InlineArgs("ok", "", "none"), InlineEnv("ok")),
    CallItem("function_call", "apply_patch", InlineArgs("ok", "b", "none"), InlineEnv("ok")),
    CallItem("function_call", "shell", InlineArgs("ok", "none", "str"), InlineEnv("ok")),
    CallItem("function_call", "shell", InlineArgs("ok", "none", "str"), InlineEnv("oserror")),
    CallItem("function_call", "unit_test_coverage", InlineArgs("ok", "none", "none"), InlineEnv("ok")) }

InlineOutputs ==
  UNION {[1..n -> InlineItems] : n \in 0..MaxOutputItems}

\* what _create_response returns: None, or a response with its output
InlineResponse(failed, output) == [failed |-> failed, output |-> output]

NoInlineResponse == InlineResponse(TRUE, <<>>)

InlineResponses ==
  {NoInlineResponse} \cup {InlineResponse(FALSE, o) : o \in InlineOutputs}

RECURSIVE block_text(_)
\* the "".join of the text blocks of a message
block_text(content) ==
  IF content = <<>> THEN <<>>
  ELSE LET block == Head(content)
           rest  == block_text(Tail(content))
       IN  IF block.type \in {"text", "output_text", "input_text"}
           THEN block.text \o rest
           ELSE rest

\* InlineModeRenderer._extract_message_text
extract_message_text(item) == Strip(block_text(item.content))

is_call(item) == item.type \in {"tool_call", "function_call"}

\* the ToolRuntime of lines 96-105: jfdi_enabled=False
inline_runtime == ToolRuntime(FALSE)

\* the call of handle_tool_call at lines 143-145
inline_dispatch(item) ==
  handle_tool_call(item.name, item.args, inline_runtime, item.env)

\* the response has a message with text / a call item
has_message(resp) ==
  \E i \in DOMAIN resp.output :
    resp.output[i].type = "message" /\ extract_message_text(resp.output[i]) # <<>>

has_tool_call(resp) == \E i \in DOMAIN resp.output : is_call(resp.output[i])

EXCEEDED_MESSAGE == "Inline mode exceeded tool call limit."

NO_CONTENT_MESSAGE == "Model returned no content."

InlineIdle ==
  /\ inline_pc = "request"
  /\ inline_requests = 0
  /\ inline_response = NoInlineResponse
  /\ inline_idx = 0
  /\ inline_tool_calls = 0
  /\ inline_messages = <<>>
  /\ inline_rc = -1
  /\ inline_error = None
  /\ inline_shown = NoText
  /\ inline_effects = {}
  /\ inline_tool_rounds = 0
  /\ inline_raised = None

OldIdle ==
  /\ RefreshIdle
  /\ SliceIdle /\ PlanIdle /\ StoreIdle /\ QueueIdle /\ EditIdle /\ ShellIdle
  /\ WriteIdle

UnitIdle ==
  /\ ListenerIdle
  /\ AssistantIdle
  /\ OutputIdle
  /\ GlobIdle
  /\ InlineIdle

ListenerRestIdle ==
  /\ OldIdle
  /\ AssistantIdle
  /\ OutputIdle
  /\ GlobIdle
  /\ InlineIdle

AssistantRestIdle ==
  /\ OldIdle
  /\ ListenerIdle
  /\ OutputIdle
  /\ GlobIdle
  /\ InlineIdle

OutputRestIdle ==
  /\ OldIdle
  /\ ListenerIdle
  /\ AssistantIdle
  /\ GlobIdle
  /\ InlineIdle

GlobRestIdle ==
  /\ OldIdle
  /\ ListenerIdle
  /\ AssistantIdle
  /\ OutputIdle
  /\ InlineIdle

InlineRestIdle ==
  /\ OldIdle
  /\ ListenerIdle
  /\ AssistantIdle
  /\ OutputIdle
  /\ GlobIdle

\* every component at rest
AuxInit == OldIdle /\ UnitIdle

NoEffect == [effects |-> {}, by |-> None, via |-> None, jfdi |-> FALSE]
Effect(effects, by, via, jfdi) ==
  [effects |-> effects, by |-> by, via |-> via, jfdi |-> jfdi]

\* tracked: a user message was on record (last_user_message_index) when the
\* stream was cancelled
NoCancel == [action |-> None, tracked |-> FALSE]

\* a step in which the user types nothing, no file or process is touched and
\* no stream is cancelled
Quiet == user_input' = <<>> /\ last_effect' = NoEffect /\ last_cancel' = NoCancel /\ last_error' = None

NoToolCall ==
  [name |-> None, jfdi |-> FALSE,
   args |-> [json |-> "ok", path |-> NoPath, content |-> "none", command |-> "none"],
   env |-> [old |-> "a", write_ok |-> TRUE, confirm |-> TRUE, proc |-> "ok"]]

NoToolResult == Ret(None, FALSE, {})

\* lines 208-209 and CLIRenderer.__init__: no loader, no reasoning buffer
WindowClosed ==
  /\ loader_started = FALSE
  /\ reasoning_buffers = {}
  /\ loader_thread = FALSE
  /\ renderer_reasoning_buffers = {}
  /\ finished_reasoning = {}

WindowInit == show_reasoning = FALSE /\ WindowClosed

NoBashCall ==
  [command |-> <<>>, cwd |-> <<>>,
   env |-> [is_dir |-> FALSE, proc |-> None, stdout |-> "none", stderr |-> "none"]]

NoBashResult == BashResult(None, FALSE, <<>>, -1)

\* the locals of run_conversation as they are when the function is entered,
\* and as the model keeps them once it has returned
LocalsInit ==
  /\ conversation_items = <<>>
  /\ pending_user_message = NoMsg
  /\ pending_context_update = FALSE
  /\ context_dirty = FALSE
  /\ warned_no_write = FALSE
  /\ buffered_shell_messages = 0
  /\ skip_model_request = FALSE
  /\ pending_user_is_repeat = FALSE
  /\ last_user_message_payload = NoMsg
  /\ last_user_message_index = -1
  /\ response = NoResponse
  /\ out_idx = 1
  /\ pending_reasoning_queue = <<>>
  /\ tool_call_handled = FALSE
  /\ assistant_messages = <<>>
  /\ scan_idx = 1
  /\ manual_mutation = FALSE
  /\ assistant_stream_buffers = 0

HistoryInit ==
  /\ user_input = <<>>
  /\ last_effect = NoEffect
  /\ exec_log = <<>>
  /\ walk_base = 0
  /\ last_cancel = NoCancel
  /\ last_error = None
  /\ len_before_user = 0
  /\ awaiting_follow_up = FALSE
  /\ quit_serials = {}
  /\ cancel_causes = <<>>

\* AIEngine.__init__ and CLIRenderer.__init__
InitLoop ==
  /\ pc = "idle"
  /\ runs = 0
  /\ rc = -1
  /\ jfdi_enabled = FALSE
  /\ dog_whistle \in {DogWhistleOf(c) : c \in ConfigPhrases}
  /\ LocalsInit
  /\ hotkey_events = <<>>
  /\ listening = FALSE
  /\ tool_call = NoToolCall
  /\ tool_result = NoToolResult
  /\ bash_call = NoBashCall
  /\ bash_result = NoBashResult
  /\ plan_state = None
  /\ WindowInit
  /\ requests = 0 /\ followups = 0 /\ serial = 0 /\ delivered = 0
  /\ HistoryInit
  /\ AuxInit

\* the Tool Runtime of ai_engine_tools.py: handle_tool_call has no jfdi gate
Init == InitLoop /\ runtime_gate = FALSE

\* run_conversation returns (or an exception leaves it): its locals are gone
Return(code) ==
  /\ pc' = "idle"
  /\ rc' = code
  /\ conversation_items' = <<>>
  /\ pending_user_message' = NoMsg
  /\ pending_context_update' = FALSE
  /\ context_dirty' = FALSE
  /\ warned_no_write' = FALSE
  /\ buffered_shell_messages' = 0
  /\ skip_model_request' = FALSE
  /\ pending_user_is_repeat' = FALSE
  /\ last_user_message_payload' = NoMsg
  /\ last_user_message_index' = -1
  /\ response' = NoResponse
  /\ out_idx' = 1
  /\ pending_reasoning_queue' = <<>>
  /\ tool_call_handled' = FALSE
  /\ assistant_messages' = <<>>
  /\ scan_idx' = 1
  /\ manual_mutation' = FALSE
  /\ assistant_stream_buffers' = 0
  /\ requests' = 0 /\ followups' = 0 /\ serial' = 0 /\ delivered' = 0
  /\ exec_log' = <<>>
  /\ walk_base' = 0
  /\ len_before_user' = 0
  /\ awaiting_follow_up' = FALSE
  /\ quit_serials' = {}
  /\ cancel_causes' = <<>>

(***************************************************************************)
(* run_conversation, lines 71-160: entry.                                  *)
(***************************************************************************)
RunConversation ==
  /\ pc = "idle"
  /\ runs < MaxRuns
  /\ runs' = runs + 1
  /\ \E prompt \in Prompts :
       LET raw_prompt == Strip(prompt) IN
       /\ user_input' = prompt
       /\ last_cancel' = NoCancel /\ last_error' = None
       /\ IF raw_prompt = <<>>
          THEN /\ Return(1)
               /\ UNCHANGED jfdi_enabled
          ELSE IF MatchesDogWhistle(raw_prompt, dog_whistle)
          THEN /\ Return(0)
               /\ jfdi_enabled' = TRUE
          ELSE /\ jfdi_enabled' = FALSE
               /\ pc' = "top"
               /\ rc' = -1
               /\ pending_user_message' = Payload(1, "task")
               /\ last_user_message_payload' = Payload(1, "task")
               /\ serial' = 1
               /\ UNCHANGED <<conversation_items, pending_context_update,
                              context_dirty, warned_no_write, buffered_shell_messages,
                              skip_model_request, pending_user_is_repeat,
                              last_user_message_index, response, out_idx,
                              pending_reasoning_queue, tool_call_handled,
                              assistant_messages, scan_idx, manual_mutation,
                              assistant_stream_buffers, requests, followups,
                              delivered, exec_log, walk_base, len_before_user,
                              awaiting_follow_up, quit_serials,
                              cancel_causes>>
  /\ last_effect' = NoEffect
  /\ plan_state' = None
  /\ UNCHANGED <<dog_whistle, hotkey_vars, call_vars, window_vars, aux_vars>>

(***************************************************************************)
(* CLIRenderer hotkey queue.  An event records the key and, for the        *)
(* properties, the number of the streaming window it was pressed in.       *)
(***************************************************************************)
HotkeyEvent(key, win) == [key |-> key, win |-> win]

\* faulty variant: the queue is not cleared when the watcher starts
StartListenerKeepsQueue(queue) == queue

\* start_hotkey_listener on a terminal: the queue is cleared, the watcher starts
start_hotkey_listener(queue) == <<>>

\* the watcher thread reads q/Q or r/R and calls _enqueue_hotkey_event
WatcherPush ==
  /\ pc = "stream"
  /\ listening
  /\ delivered < MaxEvents
  /\ delivered' = delivered + 1
  /\ \E key \in {"quit", "retry"} :
       hotkey_events' = Append(hotkey_events, HotkeyEvent(key, requests))
  /\ Quiet
  /\ UNCHANGED <<engine_vars, local_vars, listening, tool_vars, requests,
                 followups, serial, exec_log, walk_base, len_before_user,
                 awaiting_follow_up, quit_serials, cancel_causes>>

(***************************************************************************)
(* run_conversation, lines 163-239: head of the loop up to the opening of  *)
(* the stream (or to the follow-up prompt when skip_model_request is set). *)
(***************************************************************************)
BuildRequest ==
  /\ pc = "top"
  /\ LET with_context ==
           IF context_dirty \/ pending_context_update
           THEN Append(conversation_items, UserMessage(0, "context"))
           ELSE conversation_items
         staged == pending_user_message # NoMsg
         with_user ==
           IF staged
           THEN Append(with_context,
                       UserMessage(pending_user_message.cid, pending_user_message.tag))
           ELSE with_context
     IN
     /\ conversation_items' = with_user
     /\ context_dirty' = FALSE
     /\ pending_context_update' = FALSE
     /\ pending_user_message' = NoMsg
     /\ IF staged
        THEN /\ last_user_message_payload' = pending_user_message
             /\ last_user_message_index' = Len(with_user) - 1
             /\ pending_user_is_repeat' = FALSE
             /\ len_before_user' = Len(with_context)
        ELSE UNCHANGED <<last_user_message_payload, last_user_message_index,
                         pending_user_is_repeat, len_before_user>>
  /\ tool_call_handled' = FALSE
  /\ assistant_messages' = <<>>
  /\ assistant_stream_buffers' = 0
  /\ pending_reasoning_queue' = <<>>
  /\ Quiet
  /\ IF skip_model_request
     THEN /\ skip_model_request' = FALSE
          /\ pc' = "followup"
          /\ UNCHANGED <<response, requests, hotkey_vars>>
     ELSE /\ requests < MaxRequests
          /\ requests' = requests + 1
          /\ response' = NoResponse
          /\ hotkey_events' = start_hotkey_listener(hotkey_events)
          /\ listening' = TRUE
          /\ pc' = "stream"
          /\ UNCHANGED skip_model_request
  /\ UNCHANGED <<runs, rc, jfdi_enabled, dog_whistle, warned_no_write,
                 buffered_shell_messages, out_idx, scan_idx, manual_mutation,
                 tool_vars, followups, serial, delivered, exec_log, walk_base,
                 awaiting_follow_up, quit_serials, cancel_causes>>

(***************************************************************************)
(* run_conversation, lines 240-406: the streaming window.  Every event the *)
(* stream yields is preceded by a poll of the hotkey queue.                *)
(***************************************************************************)
MaxDeltas == 1

\* response.output_text.delta, nothing queued
EvDelta ==
  /\ pc = "stream"
  /\ hotkey_events = <<>>
  /\ assistant_stream_buffers < MaxDeltas
  /\ assistant_stream_buffers' = assistant_stream_buffers + 1
  /\ UNCHANGED <<engine_vars, conversation_items, pending_user_message,
                 pending_context_update, context_dirty, warned_no_write,
                 buffered_shell_messages, skip_model_request, pending_user_is_repeat,
                 last_user_message_payload, last_user_message_index, response,
                 out_idx, pending_reasoning_queue, tool_call_handled,
                 assistant_messages, scan_idx, manual_mutation, hotkey_vars,
                 tool_vars, count_vars, history_vars>>
  /\ Quiet

\* response.completed, nothing queued: the final response is captured
EvCompleted ==
  /\ pc = "stream"
  /\ hotkey_events = <<>>
  /\ ~response.captured
  /\ \E out \in Outputs(delivered) :
       /\ response' = Response(StampIds(out, requests))
       /\ delivered' = delivered + Len(out)
  /\ Quiet
  /\ UNCHANGED <<engine_vars, conversation_items, pending_user_message,
                 pending_context_update, context_dirty, warned_no_write,
                 buffered_shell_messages, skip_model_request, pending_user_is_repeat,
                 last_user_message_payload, last_user_message_index,
                 out_idx, pending_reasoning_queue, tool_call_handled,
                 assistant_messages, scan_idx, manual_mutation,
                 assistant_stream_buffers, hotkey_vars, tool_vars, requests,
                 followups, serial, history_vars>>

\* lines 365-368 and 403-440: the window closes without a cancellation; resp
\* is the captured response or what stream.response / final_response supply.
\* assistant_stream_buffers is not read after the window and is rebuilt at
\* line 198.
CloseWindow(resp) ==
  /\ listening' = FALSE
  /\ assistant_stream_buffers' = 0
  /\ UNCHANGED hotkey_events
  /\ IF ~resp.captured
     THEN /\ pc' = "top"
          /\ response' = NoResponse
          /\ UNCHANGED <<out_idx, walk_base, exec_log>>
     ELSE /\ pc' = "walk"
          /\ response' = resp
          /\ out_idx' = 1
          /\ walk_base' = Len(conversation_items)
          /\ exec_log' = <<>>

\* what getattr(stream, "response") or getattr(stream, "final_response") give
FallbackResponses(r) == {NoResponse, Response(<<>>)}

\* the stream is exhausted
StreamExhausted ==
  /\ pc = "stream"
  /\ IF response.captured
     THEN CloseWindow(response)
     ELSE \E fb \in FallbackResponses(requests) : CloseWindow(fb)
  /\ UNCHANGED <<runs, rc, jfdi_enabled, dog_whistle, conversation_items,
                 pending_user_message, pending_context_update, context_dirty,
                 warned_no_write, buffered_shell_messages, skip_model_request,
                 pending_user_is_repeat, last_user_message_payload,
                 last_user_message_index, pending_reasoning_queue,
                 tool_call_handled, assistant_messages, scan_idx, manual_mutation,
                 tool_vars, count_vars, len_before_user, awaiting_follow_up, quit_serials,
                 cancel_causes>>
  /\ Quiet

\* response.error, nothing queued: the message is displayed, response = None, break
EvError ==
  /\ pc = "stream"
  /\ hotkey_events = <<>>
  /\ \E fb \in FallbackResponses(requests) : CloseWindow(fb)
  /\ UNCHANGED <<runs, rc, jfdi_enabled, dog_whistle, conversation_items,
                 pending_user_message, pending_context_update, context_dirty,
                 warned_no_write, buffered_shell_messages, skip_model_request,
                 pending_user_is_repeat, last_user_message_payload,
                 last_user_message_index, pending_reasoning_queue,
                 tool_call_handled, assistant_messages, scan_idx, manual_mutation,
                 tool_vars, count_vars, len_before_user, awaiting_follow_up, quit_serials,
                 cancel_causes>>
  /\ user_input' = <<>>
  /\ last_effect' = NoEffect
  /\ last_cancel' = NoCancel
  /\ \E message \in {"message", "none"} :
       last_error' = IF message # "none" THEN "displayed" ELSE "silent"

\* lines 383-406: KeyboardInterrupt (130) or another exception (1) in the window
StreamAbort ==
  /\ pc = "stream"
  /\ \E code \in {130, 1} :
       /\ Return(code)
       /\ last_error' = IF code = 130 THEN "KeyboardInterrupt" ELSE "Exception"
  /\ listening' = FALSE
  /\ user_input' = <<>>
  /\ last_effect' = NoEffect
  /\ last_cancel' = NoCancel
  /\ UNCHANGED <<runs, jfdi_enabled, dog_whistle, hotkey_events, tool_vars>>

\* lines 243-257: the poll loop stops at the first quit or retry it finds
poll_hotkey_events(queue) ==
  [action |-> Head(queue).key, cause |-> Head(queue), rest |-> Tail(queue)]

\* faulty variant: only the last item is removed
TruncateLastItem(items, index) ==
  IF items = <<>> THEN items ELSE SubSeq(items, 1, Len(items) - 1)

\* faulty variant: the cancelled user message is kept
TruncateAfterUserMessage(items, index) ==
  IF index # -1 /\ 0 <= index /\ index < Len(items)
  THEN SubSeq(items, 1, index + 1)
  ELSE items

\* faulty variant: nothing is removed
TruncateNothing(items, index) == items

\* lines 409-413: del conversation_items[last_user_message_index:]
TruncateOnCancel(items, index) ==
  IF index # -1 /\ 0 <= index /\ index < Len(items)
  THEN SubSeq(items, 1, index)
  ELSE items

\* lines 414-419: what retry stages for the next iteration
RetryPending(payload) == payload

\* faulty variant: quit stages the cancelled message as retry does
QuitKeepsPayload(payload) == payload

\* lines 420-424: what quit stages for the next iteration
QuitPending(payload) == NoMsg

\* faulty variant: the walk over the output goes ahead after a cancellation
walk_captured(resp) == resp

\* lines 408-435: both branches of `if cancel_action:` end in `continue`, so
\* the response, captured or not, is not walked
response_after_cancel(resp) == NoResponse

\* lines 241-259 and 408-435: an event arrives while a key is queued
HotkeyCancel ==
  /\ pc = "stream"
  /\ hotkey_events # <<>>
  /\ LET polled == poll_hotkey_events(hotkey_events) IN
     /\ hotkey_events' = polled.rest
     /\ listening' = FALSE
     /\ assistant_stream_buffers' = 0
     /\ conversation_items' =
          TruncateOnCancel(conversation_items, last_user_message_index)
     /\ last_error' = None
     /\ last_cancel' = [action |-> polled.action,
                         tracked |-> last_user_message_index # -1]
     /\ cancel_causes' = Append(cancel_causes, polled.cause)
     /\ LET kept == response_after_cancel(response) IN
          /\ response' = kept
          /\ pc' = IF kept.captured THEN "walk" ELSE "top"
          /\ out_idx' = IF kept.captured THEN 1 ELSE out_idx
          /\ walk_base' = IF kept.captured THEN Len(conversation_items') ELSE walk_base
          /\ exec_log' = IF kept.captured THEN <<>> ELSE exec_log
     /\ IF polled.action = "retry"
        THEN /\ pending_user_message' = RetryPending(last_user_message_payload)
             /\ pending_user_is_repeat' = TRUE
             /\ UNCHANGED <<last_user_message_payload, last_user_message_index,
                            warned_no_write, jfdi_enabled, skip_model_request,
                            awaiting_follow_up, quit_serials>>
        ELSE /\ pending_user_message' = QuitPending(last_user_message_payload)
             /\ last_user_message_payload' = NoMsg
             /\ last_user_message_index' = -1
             /\ warned_no_write' = FALSE
             /\ jfdi_enabled' = FALSE
             /\ skip_model_request' = TRUE
             /\ awaiting_follow_up' = TRUE
             /\ quit_serials' =
                  IF last_user_message_payload = NoMsg THEN quit_serials
                  ELSE quit_serials \cup {last_user_message_payload.cid}
             /\ UNCHANGED pending_user_is_repeat
  /\ UNCHANGED <<runs, rc, dog_whistle, pending_context_update, context_dirty,
                 buffered_shell_messages, pending_reasoning_queue,
                 tool_call_handled, assistant_messages, scan_idx, manual_mutation,
                 tool_vars, count_vars, len_before_user>>
  /\ user_input' = <<>>
  /\ last_effect' = NoEffect

(***************************************************************************)
(* run_conversation, lines 440-519: the walk over response.output.         *)
(***************************************************************************)
\* the item the for loop visits at position idx
WalkedItem(output, idx) == output[idx]

\* faulty variant: the result is appended before the call
AppendResultFirst(items, queue, call, result) ==
  (IF queue # <<>> THEN Append(items, Head(queue)) ELSE items) \o <<result, call>>

\* lines 478-498: queued reasoning, the call and its result enter the transcript
AppendToolCall(items, queue, call, result) ==
  (IF queue # <<>> THEN Append(items, Head(queue)) ELSE items) \o <<call, result>>

\* lines 801-812: _inform_mutation_blocked
inform_mutation_blocked(items) ==
  IF items = <<>> \/ items[Len(items)] # AssistantMessage(0, "blocked")
  THEN Append(items, AssistantMessage(0, "blocked"))
  ELSE items

WalkMessage ==
  /\ pc = "walk"
  /\ out_idx <= Len(response.output)
  /\ LET item == WalkedItem(response.output, out_idx) IN
     /\ item.type = "message"
     /\ pending_reasoning_queue' = <<>>
     /\ assistant_messages' = Append(assistant_messages, [text |-> item.text, id |-> item.id])
     /\ conversation_items' = Append(conversation_items, AssistantMessage(item.id, "msg"))
  /\ out_idx' = out_idx + 1
  /\ UNCHANGED <<engine_vars, pending_user_message, pending_context_update,
                 context_dirty, warned_no_write, buffered_shell_messages,
                 skip_model_request, pending_user_is_repeat,
                 last_user_message_payload, last_user_message_index, response,
                 tool_call_handled, scan_idx, manual_mutation,
                 assistant_stream_buffers, hotkey_vars, tool_vars, count_vars,
                 history_vars>>
  /\ Quiet

WalkReasoning ==
  /\ pc = "walk"
  /\ out_idx <= Len(response.output)
  /\ LET item == WalkedItem(response.output, out_idx) IN
     /\ item.type = "reasoning"
     /\ pending_reasoning_queue' = Append(pending_reasoning_queue, ReasoningItem(item.id))
  /\ out_idx' = out_idx + 1
  /\ UNCHANGED <<engine_vars, conversation_items, pending_user_message,
                 pending_context_update, context_dirty, warned_no_write,
                 buffered_shell_messages, skip_model_request, pending_user_is_repeat,
                 last_user_message_payload, last_user_message_index, response,
                 tool_call_handled, assistant_messages, scan_idx, manual_mutation,
                 assistant_stream_buffers, hotkey_vars, tool_vars, count_vars,
                 history_vars>>
  /\ Quiet

WalkToolCall ==
  /\ pc = "walk"
  /\ out_idx <= Len(response.output)
  /\ LET item == WalkedItem(response.output, out_idx) IN
     /\ item.type = "function_call"
     /\ \E env \in LoopEnvs(item.name) :
          LET call_id == CallIdOf(item)
              res == IF runtime_gate
                     THEN gated_handle_tool_call(item.name, item.args,
                                                 ToolRuntime(jfdi_enabled), env)
                     ELSE handle_tool_call(item.name, item.args,
                                           ToolRuntime(jfdi_enabled), env)
              fx == Effect(res.effects, "assistant", "tool", jfdi_enabled)
          IN
          /\ last_effect' = IF res.effects # {} THEN fx ELSE NoEffect
          /\ IF res.raised # None
             THEN /\ Return(-2)
                  /\ UNCHANGED <<listening>>
             ELSE /\ conversation_items' =
                       LET paired == AppendToolCall(conversation_items,
                                                    pending_reasoning_queue,
                                                    ToolCallItem(call_id, item.name),
                                                    ToolResultMessage(call_id, res.result))
                       IN  IF res.result = JFDI_REQUIRED_MESSAGE
                           THEN inform_mutation_blocked(paired)
                           ELSE paired
                  /\ pending_reasoning_queue' =
                       IF pending_reasoning_queue # <<>>
                       THEN Tail(pending_reasoning_queue) ELSE <<>>
                  /\ context_dirty' =
                       IF res.result # JFDI_REQUIRED_MESSAGE /\ res.mutated
                       THEN TRUE ELSE context_dirty
                  /\ tool_call_handled' = TRUE
                  /\ exec_log' = Append(exec_log, call_id)
                  /\ out_idx' = out_idx + 1
                  /\ UNCHANGED <<pc, rc, pending_user_message, pending_context_update,
                                 warned_no_write, buffered_shell_messages,
                                 skip_model_request, pending_user_is_repeat,
                                 last_user_message_payload, last_user_message_index,
                                 response, assistant_messages, scan_idx,
                                 manual_mutation, assistant_stream_buffers,
                                 listening, count_vars, walk_base, len_before_user, awaiting_follow_up, quit_serials, cancel_causes>>
  /\ plan_state' =
       LET item == WalkedItem(response.output, out_idx) IN
       IF item.name = "update_plan" /\ item.args.json = "ok"
       THEN "set" ELSE plan_state
  /\ user_input' = <<>>
  /\ last_cancel' = NoCancel /\ last_error' = None
  /\ UNCHANGED <<runs, jfdi_enabled, dog_whistle, hotkey_events, call_vars,
                 window_vars, aux_vars>>

\* lines 519-523: the walk is over.  response and the walk position are not
\* read again; assistant_messages is read by the scan only.
EndWalk ==
  /\ pc = "walk"
  /\ out_idx > Len(response.output)
  /\ pending_reasoning_queue' = <<>>
  /\ response' = NoResponse
  /\ out_idx' = 1
  /\ scan_idx' = 1
  /\ manual_mutation' = FALSE
  /\ IF tool_call_handled
     THEN /\ pc' = "top"
          /\ assistant_messages' = <<>>
     ELSE /\ pc' = "scan"
          /\ UNCHANGED assistant_messages
  /\ UNCHANGED <<runs, rc, jfdi_enabled, dog_whistle, conversation_items,
                 pending_user_message, pending_context_update, context_dirty,
                 warned_no_write, buffered_shell_messages, skip_model_request,
                 pending_user_is_repeat, last_user_message_payload,
                 last_user_message_index, tool_call_handled,
                 assistant_stream_buffers, hotkey_vars, tool_vars, count_vars,
                 history_vars>>
  /\ Quiet

(***************************************************************************)
(* run_conversation, lines 525-571: generated-file fallback and reminder.  *)
(***************************************************************************)
\* detect_generated_files: the blocks found in a message
detect_generated_files(text) ==
  IF text = "genfile"
  THEN <<[json |-> "ok", path |-> <<"a.txt">>, content |-> "b", command |-> "none"]>>
  ELSE <<>>

\* re.search(r"\b(created|saved|written|added|generated)\b", msg_text)
ClaimsWrite(text) == text = "claims"

ScanMessage ==
  /\ pc = "scan"
  /\ scan_idx <= Len(assistant_messages)
  /\ LET m == assistant_messages[scan_idx]
         last_message_id == assistant_messages[Len(assistant_messages)].id
         is_final_summary == m.id = last_message_id
         files == IF is_final_summary THEN <<>> ELSE detect_generated_files(m.text)
     IN
     IF files = <<>>
     THEN UNCHANGED manual_mutation /\ last_effect' = NoEffect
     ELSE \E env \in LoopEnvs("genfile") :
            LET status == apply_file_update(files[1], ToolRuntime(jfdi_enabled),
                                            FALSE, env)
            IN /\ manual_mutation' = (manual_mutation \/ status.result = "applied")
               /\ last_effect' =
                    IF status.effects # {}
                    THEN Effect(status.effects, "assistant", "fallback", jfdi_enabled)
                    ELSE NoEffect
  /\ scan_idx' = scan_idx + 1
  /\ UNCHANGED <<engine_vars, conversation_items, pending_user_message,
                 pending_context_update, context_dirty, warned_no_write,
                 buffered_shell_messages, skip_model_request, pending_user_is_repeat,
                 last_user_message_payload, last_user_message_index, response,
                 out_idx, pending_reasoning_queue, tool_call_handled,
                 assistant_messages, assistant_stream_buffers, hotkey_vars,
                 tool_vars, count_vars, exec_log, walk_base,
                 len_before_user, awaiting_follow_up, quit_serials, cancel_causes>>
  /\ user_input' = <<>>
  /\ last_cancel' = NoCancel /\ last_error' = None

\* faulty variant: the reminder is sent whether or not one was sent before
remind_again(messages, manual, warned) ==
  /\ messages # <<>>
  /\ ~manual
  /\ \E k \in 1..Len(messages) : ClaimsWrite(messages[k].text)

\* lines 561-571: the messages of this turn claim a write, nothing was
\* written, and no reminder was sent since the flag was last cleared
should_remind(messages, manual, warned) ==
  /\ messages # <<>>
  /\ ~manual
  /\ ~warned
  /\ \E k \in 1..Len(messages) : ClaimsWrite(messages[k].text)

AfterScan ==
  /\ pc = "scan"
  /\ scan_idx > Len(assistant_messages)
  /\ context_dirty' = (context_dirty \/ manual_mutation)
  /\ LET warned == IF manual_mutation THEN FALSE ELSE warned_no_write
         remind == should_remind(assistant_messages, manual_mutation, warned)
     IN
     IF remind
     THEN /\ pending_user_message' = Payload(serial + 1, "reminder")
          /\ serial' = serial + 1
          /\ warned_no_write' = TRUE
          /\ pc' = "top"
     ELSE /\ warned_no_write' = warned
          /\ pc' = "followup"
          /\ UNCHANGED <<pending_user_message, serial>>
  /\ assistant_messages' = <<>>
  /\ scan_idx' = 1
  /\ manual_mutation' = FALSE
  /\ UNCHANGED <<runs, rc, jfdi_enabled, dog_whistle, conversation_items,
                 pending_context_update, buffered_shell_messages,
                 skip_model_request, pending_user_is_repeat,
                 last_user_message_payload, last_user_message_index, response,
                 out_idx, pending_reasoning_queue, tool_call_handled,
                 assistant_stream_buffers, hotkey_vars, tool_vars, requests,
                 followups, delivered, history_vars>>
  /\ Quiet

(***************************************************************************)
(* run_conversation, lines 573-667: the follow-up prompt.                  *)
(***************************************************************************)
FollowUpReturns ==
  /\ UNCHANGED plan_state
  /\ Return(0)
  /\ last_effect' = NoEffect
  /\ UNCHANGED jfdi_enabled

FollowUpDogWhistle ==
  /\ UNCHANGED plan_state
  /\ jfdi_enabled' = TRUE
  /\ pending_user_message' = Payload(serial + 1, "approval")
  /\ serial' = serial + 1
  /\ pending_user_is_repeat' = FALSE
  /\ skip_model_request' = FALSE
  /\ awaiting_follow_up' = FALSE
  /\ UNCHANGED <<conversation_items, pending_context_update, warned_no_write,
                 buffered_shell_messages, last_user_message_payload,
                 last_user_message_index>>
  /\ last_effect' = NoEffect

\* faulty variant: the reset leaves the transcript as it is
clear_keeps_items(items) == items

\* conversation_items.clear()
clear(items) == <<>>

\* lines 590-607: <<NEW_CONVERSATION>>
FollowUpNewConversation ==
  /\ conversation_items' = clear(conversation_items)
  /\ plan_state' = None
  /\ buffered_shell_messages' = 0
  /\ pending_user_message' = NoMsg
  /\ pending_context_update' = TRUE
  /\ warned_no_write' = FALSE
  /\ skip_model_request' = TRUE
  /\ last_user_message_payload' = NoMsg
  /\ last_user_message_index' = -1
  /\ pending_user_is_repeat' = FALSE
  /\ jfdi_enabled' = FALSE
  /\ awaiting_follow_up' = FALSE
  /\ last_effect' = NoEffect
  /\ UNCHANGED serial

\* lines 615-651: "!" runs the rest through run_sandboxed_bash
FollowUpShell(command_text) ==
  /\ UNCHANGED plan_state
  /\ warned_no_write' = FALSE
  /\ awaiting_follow_up' = FALSE
  /\ IF command_text = <<>>
     THEN /\ last_effect' = NoEffect
          /\ UNCHANGED <<buffered_shell_messages, skip_model_request>>
     ELSE \E env \in LoopEnvs("!") :
            LET r == run_sandboxed_bash(env)
            IN /\ last_effect' =
                    IF SpawnEffect(env) # {}
                    THEN Effect(SpawnEffect(env), "user", "shell_follow_up", jfdi_enabled)
                    ELSE NoEffect
               /\ IF r.raised = None
                  THEN /\ buffered_shell_messages' = buffered_shell_messages + 1
                       /\ skip_model_request' = TRUE
                  ELSE UNCHANGED <<buffered_shell_messages, skip_model_request>>
  /\ UNCHANGED <<jfdi_enabled, conversation_items, pending_user_message,
                 pending_context_update, last_user_message_payload,
                 last_user_message_index, pending_user_is_repeat, serial>>

\* lines 653-667: a new instruction
FollowUpInstruction ==
  /\ UNCHANGED plan_state
  /\ warned_no_write' = FALSE
  /\ awaiting_follow_up' = FALSE
  /\ conversation_items' =
       conversation_items \o
       [k \in 1..buffered_shell_messages |-> UserMessage(0, "shell")]
  /\ buffered_shell_messages' = 0
  /\ pending_user_message' = Payload(serial + 1, "follow_up")
  /\ serial' = serial + 1
  /\ pending_user_is_repeat' = FALSE
  /\ last_effect' = NoEffect
  /\ UNCHANGED <<jfdi_enabled, pending_context_update, skip_model_request,
                 last_user_message_payload, last_user_message_index>>

FollowUp ==
  /\ pc = "followup"
  /\ followups < MaxFollowUps
  /\ \E raw \in FollowUpLines :
       LET answer == PromptFollowUp(raw)
           follow_up == Strip(answer)
       IN
       /\ user_input' = raw
       /\ last_cancel' = NoCancel /\ last_error' = None
       /\ IF answer = NoneText THEN FollowUpReturns
          ELSE IF MatchesDogWhistle(follow_up, dog_whistle)
          THEN FollowUpDogWhistle /\ pc' = "top" /\ followups' = followups + 1
               /\ UNCHANGED <<rc, context_dirty, response, out_idx,
                              pending_reasoning_queue, tool_call_handled,
                              assistant_messages, scan_idx, manual_mutation,
                              assistant_stream_buffers, requests, delivered,
                              exec_log, walk_base,
                              len_before_user, quit_serials, cancel_causes>>
          ELSE IF follow_up = NEW_CONVERSATION_TOKEN
          THEN FollowUpNewConversation /\ pc' = "top" /\ followups' = followups + 1
               /\ UNCHANGED <<rc, context_dirty, response, out_idx,
                              pending_reasoning_queue, tool_call_handled,
                              assistant_messages, scan_idx, manual_mutation,
                              assistant_stream_buffers, requests, delivered,
                              exec_log, walk_base,
                              len_before_user, quit_serials, cancel_causes>>
          ELSE IF follow_up = <<>> THEN FollowUpReturns
          ELSE IF StartsWith(follow_up, <<"!">>)
          THEN FollowUpShell(Strip(Tail(follow_up)))
               /\ pc' = "top" /\ followups' = followups + 1
               /\ UNCHANGED <<rc, context_dirty, response, out_idx,
                              pending_reasoning_queue, tool_call_handled,
                              assistant_messages, scan_idx, manual_mutation,
                              assistant_stream_buffers, requests, delivered,
                              exec_log, walk_base,
                              len_before_user, quit_serials, cancel_causes>>
          ELSE FollowUpInstruction /\ pc' = "top" /\ followups' = followups + 1
               /\ UNCHANGED <<rc, context_dirty, response, out_idx,
                              pending_reasoning_queue, tool_call_handled,
                              assistant_messages, scan_idx, manual_mutation,
                              assistant_stream_buffers, requests, delivered,
                              exec_log, walk_base,
                              len_before_user, quit_serials, cancel_causes>>
  /\ UNCHANGED <<runs, dog_whistle, hotkey_vars, call_vars, window_vars, aux_vars>>

(***************************************************************************)
(* run_edit, lines 670-789, on the answers the loop model draws: a failed  *)
(* request, a bare fence and two texts.                                    *)
(***************************************************************************)
LoopEditResponses ==
  { EditResponse(TRUE, <<>>), EditResponse(FALSE, FENCE),
    EditResponse(FALSE, <<"a">>), EditResponse(FALSE, <<"b">>) }

RunEdit ==
  /\ pc = "idle"
  /\ runs < MaxRuns
  /\ runs' = runs + 1
  /\ \E answer \in LoopEditResponses, env \in LoopEnvs("write") :
       LET out == run_edit(jfdi_enabled, answer, env) IN
       /\ rc' = out.rc
       /\ last_effect' =
            IF out.effects # {}
            THEN Effect(out.effects, "assistant", "edit", jfdi_enabled)
            ELSE NoEffect
  /\ user_input' = <<>>
  /\ last_cancel' = NoCancel /\ last_error' = None
  /\ UNCHANGED <<pc, jfdi_enabled, dog_whistle, local_vars, hotkey_vars, tool_vars,
                 count_vars, exec_log, walk_base, len_before_user,
                 awaiting_follow_up, quit_serials, cancel_causes>>

(***************************************************************************)
(* The Agent Loop.                                                         *)
(***************************************************************************)
Next ==
  \/ RunConversation
  \/ RunEdit
  \/ BuildRequest
  \/ WatcherPush
  \/ EvDelta
  \/ EvCompleted
  \/ EvError
  \/ StreamExhausted
  \/ StreamAbort
  \/ HotkeyCancel
  \/ WalkMessage
  \/ WalkReasoning
  \/ WalkToolCall
  \/ EndWalk
  \/ ScanMessage
  \/ AfterScan
  \/ FollowUp

Spec == Init /\ [][Next]_vars

\* the Agent Loop over the gated Tool Runtime
InitGated == InitLoop /\ runtime_gate = TRUE

SpecGated == InitGated /\ [][Next]_vars

(***************************************************************************)
(* The Tool Runtime taken alone: one dispatch of handle_tool_call.         *)
(***************************************************************************)
ToolCalls ==
  {c \in [name : ToolNames, jfdi : BOOLEAN, args : ArgShapes, env : EnvOutcomes] :
     c.env \in ToolEnvs(c.name)}

InitCore ==
  /\ pc = "idle"
  /\ runs = 0
  /\ rc = -1
  /\ jfdi_enabled = FALSE
  /\ dog_whistle = DefaultDogWhistle
  /\ LocalsInit
  /\ hotkey_events = <<>>
  /\ listening = FALSE
  /\ tool_call = NoToolCall
  /\ tool_result = NoToolResult
  /\ bash_call = NoBashCall
  /\ bash_result = NoBashResult
  /\ plan_state = None
  /\ WindowInit
  /\ runtime_gate = FALSE
  /\ requests = 0 /\ followups = 0 /\ serial = 0 /\ delivered = 0
  /\ HistoryInit

InitTool == InitCore /\ AuxInit

ChooseToolCall ==
  /\ tool_call = NoToolCall
  /\ tool_call' \in ToolCalls
  /\ UNCHANGED <<engine_vars, local_vars, hotkey_vars, tool_result, runtime_gate, bash_vars, plan_state, window_vars, aux_vars, count_vars,
                 step_vars, history_vars>>

DispatchToolCall ==
  /\ tool_call # NoToolCall
  /\ tool_result = NoToolResult
  /\ tool_result' = handle_tool_call(tool_call.name, tool_call.args,
                                     ToolRuntime(tool_call.jfdi), tool_call.env)
  /\ UNCHANGED <<engine_vars, local_vars, hotkey_vars, tool_call, runtime_gate, bash_vars, plan_state, window_vars, aux_vars, count_vars,
                 step_vars, history_vars>>

NextTool == ChooseToolCall \/ DispatchToolCall

SpecTool == InitTool /\ [][NextTool]_vars

(***************************************************************************)
(* The Sandbox Executor taken alone: one call of run_sandboxed_bash with   *)
(* scope_root = base_root, as every caller passes it.                      *)
(***************************************************************************)
InitBash == InitTool

ChooseBashCall ==
  /\ bash_call = NoBashCall
  /\ bash_call' \in BashCalls
  /\ UNCHANGED <<engine_vars, local_vars, hotkey_vars, tool_call, tool_result,
                 runtime_gate, bash_result, plan_state, window_vars, aux_vars, count_vars, step_vars,
                 history_vars>>

RunBash ==
  /\ bash_call # NoBashCall
  /\ bash_result = NoBashResult
  /\ bash_result' = sandboxed_bash(bash_call.command, bash_call.cwd, base_root,
                                   bash_call.env)
  /\ UNCHANGED <<engine_vars, local_vars, hotkey_vars, tool_call, tool_result,
                 runtime_gate, bash_call, plan_state, window_vars, aux_vars, count_vars, step_vars,
                 history_vars>>

NextBash == ChooseBashCall \/ RunBash

SpecBash == InitBash /\ [][NextBash]_vars

(***************************************************************************)
(* The streaming window of run_conversation alone (ai_engine_main.py,      *)
(* lines 207-406): loader, reasoning buffers and hotkey watcher.           *)
(***************************************************************************)
\* part keys _reasoning_key can give the reasoning events of one response
ReasoningKeys == {"rs_1:text:0", "rs_1:summary:0"}

\* faulty variant: the handler leaves the open buffers alone
flush_nothing(show, buffers, finished) == finished

\* lines 374-382, 384-388, 394-398: finish_reasoning for every open buffer
flush_reasoning(show, buffers, finished) ==
  IF show THEN finished \cup buffers ELSE finished

InitStream ==
  /\ pc = "idle"
  /\ runs = 0
  /\ rc = -1
  /\ jfdi_enabled = FALSE
  /\ dog_whistle = DefaultDogWhistle
  /\ LocalsInit
  /\ hotkey_events = <<>>
  /\ listening = FALSE
  /\ tool_call = NoToolCall
  /\ tool_result = NoToolResult
  /\ runtime_gate = FALSE
  /\ bash_call = NoBashCall
  /\ bash_result = NoBashResult
  /\ plan_state = None
  /\ show_reasoning \in BOOLEAN
  /\ WindowClosed
  /\ requests = 0 /\ followups = 0 /\ serial = 0 /\ delivered = 0
  /\ HistoryInit
  /\ AuxInit

StreamRest ==
  <<runs, jfdi_enabled, dog_whistle, local_vars, hotkey_events, call_vars,
    plan_state, aux_vars, show_reasoning, followups, serial, user_input, last_effect,
    last_cancel, history_vars>>

\* lines 207-240: the window opens; start_loader starts a thread on a terminal
OpenStream ==
  /\ pc # "stream"
  /\ requests < MaxRequests
  /\ requests' = requests + 1
  /\ delivered' = 0
  /\ pc' = "stream"
  /\ rc' = -1
  /\ listening' = TRUE
  /\ loader_started' = ~show_reasoning
  /\ \E isatty \in BOOLEAN : loader_thread' = (~show_reasoning /\ isatty)
  /\ reasoning_buffers' = {}
  /\ finished_reasoning' = {}
  /\ last_error' = None
  /\ UNCHANGED <<renderer_reasoning_buffers, StreamRest>>

\* lines 262-283: response.reasoning_text.delta / reasoning_summary_text.delta
EvReasoningDelta ==
  /\ pc = "stream"
  /\ delivered < MaxEvents
  /\ delivered' = delivered + 1
  /\ \E part_key \in ReasoningKeys :
       IF ~show_reasoning
       THEN UNCHANGED <<reasoning_buffers, renderer_reasoning_buffers>>
       ELSE /\ reasoning_buffers' = reasoning_buffers \cup {part_key}
            /\ renderer_reasoning_buffers' =
                 renderer_reasoning_buffers \cup {part_key}
  /\ last_error' = None
  /\ UNCHANGED <<pc, rc, listening, requests, loader_started, loader_thread,
                 finished_reasoning, StreamRest>>

\* lines 284-303: response.reasoning_text.done / reasoning_summary_text.done
EvReasoningDone ==
  /\ pc = "stream"
  /\ delivered < MaxEvents
  /\ delivered' = delivered + 1
  /\ \E part_key \in ReasoningKeys :
       IF ~show_reasoning
       THEN UNCHANGED <<reasoning_buffers, renderer_reasoning_buffers,
                        finished_reasoning>>
       ELSE /\ finished_reasoning' = finished_reasoning \cup {part_key}
            /\ renderer_reasoning_buffers' =
                 renderer_reasoning_buffers \ {part_key}
            /\ reasoning_buffers' = reasoning_buffers \ {part_key}
  /\ last_error' = None
  /\ UNCHANGED <<pc, rc, listening, requests, loader_started, loader_thread,
                 StreamRest>>

\* lines 313-320: the first text delta stops the loader
EvOutputTextDelta ==
  /\ pc = "stream"
  /\ delivered < MaxEvents
  /\ delivered' = delivered + 1
  /\ loader_started' = FALSE
  /\ loader_thread' = IF loader_started THEN FALSE ELSE loader_thread
  /\ last_error' = None
  /\ UNCHANGED <<pc, rc, listening, requests, reasoning_buffers,
                 renderer_reasoning_buffers, finished_reasoning, StreamRest>>

\* the finally clause, lines 403-406
StopLoaderAndListener ==
  /\ loader_thread' = IF loader_started THEN FALSE ELSE loader_thread
  /\ listening' = FALSE

\* lines 365-382 and 403-406: the event loop is left without an exception
CloseStream ==
  /\ pc = "stream"
  /\ pc' = "top"
  /\ finished_reasoning' =
       flush_reasoning(show_reasoning, reasoning_buffers, finished_reasoning)
  /\ renderer_reasoning_buffers' =
       renderer_reasoning_buffers \ finished_reasoning'
  /\ reasoning_buffers' = IF show_reasoning THEN {} ELSE reasoning_buffers
  /\ StopLoaderAndListener
  /\ last_error' = None
  /\ UNCHANGED <<rc, requests, delivered, loader_started, StreamRest>>

\* lines 383-392 and 393-402 with 403-406: the handlers of the window
StreamHandler(code) ==
  /\ pc = "stream"
  /\ pc' = "idle"
  /\ rc' = code
  /\ finished_reasoning' =
       flush_reasoning(show_reasoning, reasoning_buffers, finished_reasoning)
  /\ renderer_reasoning_buffers' =
       renderer_reasoning_buffers \ finished_reasoning'
  /\ StopLoaderAndListener
  /\ UNCHANGED <<requests, delivered, loader_started, reasoning_buffers,
                 StreamRest>>

\* Ctrl-C while the window is open
KeyboardInterrupt ==
  /\ StreamHandler(130)
  /\ last_error' = "KeyboardInterrupt"

\* any other exception in the window
StreamException ==
  /\ StreamHandler(1)
  /\ last_error' = "Exception"

NextStream ==
  \/ OpenStream
  \/ EvReasoningDelta
  \/ EvReasoningDone
  \/ EvOutputTextDelta
  \/ CloseStream
  \/ KeyboardInterrupt
  \/ StreamException

SpecStream == InitStream /\ [][NextStream]_vars

(***************************************************************************)
(* read_file_slice read in a loop: the reader passes the last_line_read of *)
(* one slice as the offset of the next until a slice is not truncated.     *)
(***************************************************************************)
InitSlice ==
  /\ InitCore
  /\ UnitIdle
  /\ RefreshIdle
  /\ PlanIdle
  /\ StoreIdle
  /\ QueueIdle
  /\ EditIdle
  /\ ShellIdle
  /\ WriteIdle
  /\ slice_file \in SliceFiles
  /\ slice_limit \in SliceLimits
  /\ slice_max_bytes \in SliceMaxBytes
  /\ file_slice = NoSlice
  /\ slice_lines = <<>>

ReadFileSlice ==
  /\ file_slice.truncated
  /\ LET offset == IF file_slice = NoSlice THEN 0 ELSE last_line_read(file_slice)
     IN  file_slice' = read_file_slice(slice_file, offset, slice_limit,
                                       slice_max_bytes)
  /\ slice_lines' = slice_lines \o file_slice'.lines
  /\ UNCHANGED <<core_vars, slice_rest, slice_file, slice_limit, slice_max_bytes>>

NextSlice == ReadFileSlice

SpecSlice == InitSlice /\ [][NextSlice]_vars

(***************************************************************************)
(* plan_update called repeatedly on one runtime.                           *)
(***************************************************************************)
InitPlan == InitCore /\ AuxInit

PlanUpdate ==
  /\ plan_update_calls < MaxPlanCalls
  /\ plan_update_calls' = plan_update_calls + 1
  /\ \E args \in PlanUpdateArgs :
       LET out == run_plan_update(args, todos) IN
       /\ plan_update_args' = args
       /\ plan_update_result' = out.result
       /\ todos' = out.todos
       /\ todos_before' = todos
  /\ UNCHANGED <<core_vars, todo_rest>>

NextPlan == PlanUpdate

SpecPlan == InitPlan /\ [][NextPlan]_vars

(***************************************************************************)
(* ConversationStore: save taken step by step, with the failures and the   *)
(* crash each step can meet, loads at any moment, and writes from outside. *)
(***************************************************************************)
InitStore == InitCore /\ AuxInit

StoreStep ==
  /\ store_ops < MaxStoreOps
  /\ store_ops' = store_ops + 1
  /\ UNCHANGED <<core_vars, store_rest>>

\* line 74: tmp_path.open("w") creates or truncates the temporary file; when
\* it raises OSError the handler unlinks the temporary file if it exists
SaveOpen ==
  /\ StoreStep
  /\ save_pc = "idle"
  /\ \E payload \in SavePayloads, ok \in BOOLEAN :
       /\ save_payload' = payload
       /\ store_before' = store_file
       /\ IF ok
          THEN save_pc' = "opened" /\ store_tmp' = Partial
          ELSE save_pc' = "idle" /\ store_tmp' = Absent
  /\ load_result' = NotLoaded
  /\ UNCHANGED store_file

\* line 75: json.dump and the close of the handle
SaveDump ==
  /\ StoreStep
  /\ save_pc = "opened"
  /\ \E ok \in BOOLEAN :
       IF ok
       THEN save_pc' = "dumped" /\ store_tmp' = save_payload
       ELSE save_pc' = "idle" /\ store_tmp' = Absent
  /\ load_result' = NotLoaded
  /\ UNCHANGED <<store_file, save_payload, store_before>>

\* line 76: tmp_path.replace(self.file_path), a rename
SaveReplace ==
  /\ StoreStep
  /\ save_pc = "dumped"
  /\ save_pc' = "idle"
  /\ \E ok \in BOOLEAN :
       IF ok
       THEN store_file' = store_tmp /\ store_tmp' = Absent
       ELSE store_file' = store_file /\ store_tmp' = Absent
  /\ load_result' = NotLoaded
  /\ UNCHANGED <<save_payload, store_before>>

\* the process dies in the middle of a save: both files stay as they are
SaveCrash ==
  /\ StoreStep
  /\ save_pc # "idle"
  /\ save_pc' = "idle"
  /\ load_result' = NotLoaded
  /\ UNCHANGED <<store_file, store_tmp, save_payload, store_before>>

\* load of the same workspace, by this process or another one
Load ==
  /\ StoreStep
  /\ load_result' = load(store_file)
  /\ UNCHANGED <<store_file, store_tmp, save_pc, save_payload, store_before>>

\* file_path is damaged or written from outside while no save is under way
ForeignWrite ==
  /\ StoreStep
  /\ save_pc = "idle"
  /\ store_file' \in ForeignContents
  /\ store_before' = store_file'
  /\ load_result' = NotLoaded
  /\ UNCHANGED <<store_tmp, save_pc, save_payload>>

NextStore ==
  \/ SaveOpen
  \/ SaveDump
  \/ SaveReplace
  \/ SaveCrash
  \/ Load
  \/ ForeignWrite

SpecStore == InitStore /\ [][NextStore]_vars

(***************************************************************************)
(* The hotkey queue under every interleaving of the calling thread         *)
(* (start_hotkey_listener, stop_hotkey_listener, poll_hotkey_event) and    *)
(* the worker threads.  A `with self._hotkey_lock` block is an acquire     *)
(* step followed by the body, which releases the lock.                     *)
(***************************************************************************)
InitQueue == InitCore /\ AuxInit

QueueStep == UNCHANGED <<core_vars, queue_rest>>

\* start_hotkey_listener, lines 85-100: no live thread on record, take the lock
StartAcquire ==
  /\ caller_pc = "idle"
  /\ windows_started < MaxWindows
  /\ IF hotkey_thread = None THEN TRUE ELSE worker_pc[hotkey_thread] = "dead"
  /\ \E w \in Workers : worker_pc[w] = "dead"
  /\ hotkey_lock = "free"
  /\ hotkey_lock' = "loop"
  /\ caller_pc' = "start_locked"
  /\ UNCHANGED <<hotkey_deque, hotkey_thread, stop_event, worker_pc, worker_name,
                 polled_events, keys_read, pushed>>
  /\ UNCHANGED <<windows_started, held_window, key_windows, poll_windows>>
  /\ QueueStep

\* line 101: the queue is cleared and the lock released
StartClear ==
  /\ caller_pc = "start_locked"
  /\ hotkey_deque' = <<>>
  /\ hotkey_lock' = "free"
  /\ caller_pc' = "start_thread"
  /\ UNCHANGED <<hotkey_thread, stop_event, worker_pc, worker_name, polled_events,
                 keys_read, pushed>>
  /\ UNCHANGED <<windows_started, held_window, key_windows, poll_windows>>
  /\ QueueStep

\* lines 99, 102, 151-153: a new worker with a new stop event
StartThread ==
  /\ caller_pc = "start_thread"
  /\ \E w \in Workers :
       /\ worker_pc[w] = "dead"
       /\ worker_pc' = [worker_pc EXCEPT ![w] = "test"]
       /\ stop_event' = [stop_event EXCEPT ![w] = FALSE]
       /\ hotkey_thread' = w
  /\ caller_pc' = "idle"
  /\ UNCHANGED <<hotkey_lock, hotkey_deque, worker_name, polled_events, keys_read, pushed>>
  /\ windows_started' = windows_started + 1
  /\ UNCHANGED <<held_window, key_windows, poll_windows>>
  /\ QueueStep

\* stop_hotkey_listener: the event is set and, joined or not, the thread is
\* forgotten
stop_hotkey_listener ==
  /\ caller_pc = "idle"
  /\ hotkey_thread # None
  /\ stop_event' = [stop_event EXCEPT ![hotkey_thread] = TRUE]
  /\ hotkey_thread' = None
  /\ UNCHANGED <<hotkey_lock, hotkey_deque, worker_pc, worker_name, caller_pc,
                 polled_events, keys_read, pushed>>
  /\ UNCHANGED <<windows_started, held_window, key_windows, poll_windows>>
  /\ QueueStep

\* poll_hotkey_event, line 175, called for each event of the stream, between
\* start_hotkey_listener and stop_hotkey_listener
PollAcquire ==
  /\ caller_pc = "idle"
  /\ hotkey_thread # None
  /\ hotkey_lock = "free"
  /\ hotkey_lock' = "loop"
  /\ caller_pc' = "poll_locked"
  /\ UNCHANGED <<hotkey_deque, hotkey_thread, stop_event, worker_pc, worker_name,
                 polled_events, keys_read, pushed>>
  /\ UNCHANGED <<windows_started, held_window, key_windows, poll_windows>>
  /\ QueueStep

\* lines 176-178: the oldest event is removed and returned, or None is
PollPop ==
  /\ caller_pc = "poll_locked"
  /\ IF hotkey_deque # <<>>
       THEN /\ hotkey_deque' = popleft(hotkey_deque).rest
            /\ polled_events' = Append(polled_events, popleft(hotkey_deque).value)
       ELSE UNCHANGED <<hotkey_deque, polled_events>>
  /\ hotkey_lock' = "free"
  /\ caller_pc' = "idle"
  /\ UNCHANGED <<hotkey_thread, stop_event, worker_pc, worker_name, keys_read, pushed>>
  /\ poll_windows' = IF hotkey_deque # <<>> THEN Append(poll_windows, windows_started)
                    ELSE poll_windows
  /\ UNCHANGED <<windows_started, held_window, key_windows>>
  /\ QueueStep

\* worker, line 125: while not stop_event.is_set()
WorkerTest ==
  \E w \in Workers :
    /\ worker_pc[w] = "test"
    /\ worker_pc' = [worker_pc EXCEPT ![w] = IF stop_event[w] THEN "dead" ELSE "select"]
    /\ UNCHANGED <<hotkey_lock, hotkey_deque, hotkey_thread, stop_event, worker_name,
                   caller_pc, polled_events, keys_read, pushed>>
    /\ UNCHANGED <<windows_started, held_window, key_windows, poll_windows>>
    /\ QueueStep

\* lines 126-143: nothing to read, or one byte read and named
WorkerRead ==
  \E w \in Workers :
    /\ worker_pc[w] = "select"
    /\ \/ /\ worker_pc' = [worker_pc EXCEPT ![w] = "test"]
          /\ UNCHANGED <<worker_name, keys_read>>
       \/ /\ keys_read < MaxKeys
          /\ keys_read' = keys_read + 1
          /\ \E key_code \in KeyCodes :
               IF key_name(key_code) \in HotkeyNames
                 THEN /\ worker_name' = [worker_name EXCEPT ![w] = key_name(key_code)]
                      /\ worker_pc' = [worker_pc EXCEPT ![w] = "enqueue"]
                 ELSE /\ worker_pc' = [worker_pc EXCEPT ![w] = "test"]
                      /\ UNCHANGED worker_name
    /\ UNCHANGED <<hotkey_lock, hotkey_deque, hotkey_thread, stop_event, caller_pc,
                   polled_events, pushed>>
    /\ held_window' = IF worker_pc'[w] = "enqueue"
                     THEN [held_window EXCEPT ![w] =
                             IF hotkey_thread # None THEN windows_started ELSE 0]
                     ELSE held_window
    /\ UNCHANGED <<windows_started, key_windows, poll_windows>>
    /\ QueueStep

\* _enqueue_hotkey_event, lines 79-81
WorkerAcquire ==
  \E w \in Workers :
    /\ worker_pc[w] = "enqueue"
    /\ worker_name[w] \in HotkeyNames
    /\ hotkey_lock = "free"
    /\ hotkey_lock' = w
    /\ worker_pc' = [worker_pc EXCEPT ![w] = "locked"]
    /\ UNCHANGED <<hotkey_deque, hotkey_thread, stop_event, worker_name, caller_pc,
                   polled_events, keys_read, pushed>>
    /\ UNCHANGED <<windows_started, held_window, key_windows, poll_windows>>
    /\ QueueStep

\* line 82: the event is appended and the lock released
WorkerAppend ==
  \E w \in Workers :
    /\ worker_pc[w] = "locked"
    /\ pushed' = pushed + 1
    /\ hotkey_deque' = Append(hotkey_deque, Pushed(worker_name[w], pushed + 1))
    /\ hotkey_lock' = "free"
    /\ worker_pc' = [worker_pc EXCEPT ![w] = "test"]
    /\ worker_name' = [worker_name EXCEPT ![w] = None]
    /\ UNCHANGED <<hotkey_thread, stop_event, caller_pc, polled_events, keys_read>>
    /\ key_windows' = Append(key_windows, held_window[w])
    /\ UNCHANGED <<windows_started, held_window, poll_windows>>
    /\ QueueStep

NextQueue ==
  \/ StartAcquire
  \/ StartClear
  \/ StartThread
  \/ stop_hotkey_listener
  \/ PollAcquire
  \/ PollPop
  \/ WorkerTest
  \/ WorkerRead
  \/ WorkerAcquire
  \/ WorkerAppend

SpecQueue == InitQueue /\ [][NextQueue]_vars

(***************************************************************************)
(* run_edit on every answer and target.                                    *)
(***************************************************************************)
InitEdit == InitCore /\ AuxInit

Edit ==
  /\ edit_jfdi' \in BOOLEAN
  /\ edit_response' \in EditResponses
  /\ edit_env' \in EditEnvs
  /\ edit_result' = run_edit(edit_jfdi', edit_response', edit_env')
  /\ UNCHANGED <<core_vars, edit_rest>>

NextEdit == Edit

SpecEdit == InitEdit /\ [][NextEdit]_vars

(***************************************************************************)
(* Orchestrator.run on every command line of up to MaxArgs arguments.      *)
(***************************************************************************)
InitShell ==
  /\ InitCore
  /\ UnitIdle
  /\ RefreshIdle
  /\ SliceIdle
  /\ PlanIdle
  /\ StoreIdle
  /\ QueueIdle
  /\ EditIdle
  /\ WriteIdle
  /\ shell_argv \in ArgLists
  /\ shell_env \in ShellEnvs
  /\ shell_run = NoShellRun

OrchestratorRun ==
  /\ shell_run = NoShellRun
  /\ shell_run' = orchestrator_run(shell_argv, shell_env)
  /\ UNCHANGED <<core_vars, shell_rest, shell_argv, shell_env>>

NextShell == OrchestratorRun

SpecShell == InitShell /\ [][NextShell]_vars

(***************************************************************************)
(* The write tool under every instruction.                                 *)
(***************************************************************************)
InitWrite ==
  /\ InitCore
  /\ UnitIdle
  /\ RefreshIdle
  /\ SliceIdle
  /\ PlanIdle
  /\ StoreIdle
  /\ QueueIdle
  /\ EditIdle
  /\ ShellIdle
  /\ latest_instruction \in Instructions
  /\ write_args \in WriteArgs
  /\ write_env \in WriteEnvs
  /\ write_call = NoWriteCall

HandleWrite ==
  /\ write_call = NoWriteCall
  /\ write_call' = handle_write(write_args, ToolRuntime(TRUE), latest_instruction,
                                write_env)
  /\ UNCHANGED <<core_vars, write_rest, latest_instruction, write_args, write_env>>

NextWrite == HandleWrite

SpecWrite == InitWrite /\ [][NextWrite]_vars

(***************************************************************************)
(* run_conversation from a mutation to the next model request              *)
(* (ai_engine_main.py 163-239, 439-505, 521-559, 572-660): the head of the *)
(* loop with the context it recomputes, the walk over the function calls   *)
(* of a response, the scan for generated files and the follow-up prompt.   *)
(* The streaming window is one step here; a cancellation falls inside it,  *)
(* after the request was opened.                                           *)
(***************************************************************************)
MaxModelRequests == 3
MaxWalk == 2
MaxPrompts == 2

\* format_context_for_prompt(collect_context(...)): include_listing is false,
\* so a scope without readable top-level files formats to the empty string
ContextTexts == {"", "snapshot"}

InitRefresh ==
  /\ InitCore
  /\ UnitIdle
  /\ SliceIdle /\ PlanIdle /\ StoreIdle /\ QueueIdle /\ EditIdle /\ ShellIdle
  /\ WriteIdle
  /\ RefreshIdle

RefreshStep == UNCHANGED <<core_vars, refresh_rest>>

\* the snapshot message is appended when pending_context_update is truthy
with_snapshot(items, pending) ==
  IF pending \notin {None, ""} THEN Append(items, "snapshot") ELSE items

\* lines 166-174: prompt_context is recomputed
recompute(fresh) == fresh

\* lines 163-239: the head of the loop, up to the request or past it
LoopHead ==
  /\ loop_pc = "top"
  /\ \E fresh \in ContextTexts :
       LET context == IF dirty THEN recompute(fresh) ELSE prompt_context
           pending == IF dirty THEN context ELSE pending_snapshot
           snapped == with_snapshot(transcript, pending)
       IN /\ prompt_context' = context
          /\ pending_snapshot' = IF pending \notin {None, ""} THEN None ELSE pending
          /\ transcript' = IF staged_user THEN Append(snapped, "user") ELSE snapped
  /\ dirty' = FALSE
  /\ staged_user' = FALSE
  /\ handled' = FALSE
  /\ skip_request' = FALSE
  /\ IF skip_request
     THEN /\ loop_pc' = "followup"    \* no assistant message to scan
          /\ UNCHANGED <<walk_left, model_requests, mutation_mark>>
     ELSE /\ model_requests < MaxModelRequests
          /\ model_requests' = model_requests + 1
          /\ walk_left' \in 0..MaxWalk
          /\ mutation_mark' = -1
          /\ loop_pc' = "walk"
  /\ UNCHANGED prompts_read
  /\ RefreshStep

\* lines 439-505: a function call is dispatched and its result appended;
\* "blocked" is JFDI_REQUIRED_MESSAGE, followed by the note to the user
WalkCall ==
  /\ loop_pc = "walk"
  /\ walk_left > 0
  /\ walk_left' = walk_left - 1
  /\ handled' = TRUE
  /\ \E outcome \in {"blocked", "mutated", "unchanged"} :
       /\ transcript' =
            IF outcome = "blocked"
            THEN transcript \o <<"call", "result", "assistant">>
            ELSE transcript \o <<"call", "result">>
       /\ dirty' = (dirty \/ outcome = "mutated")
       /\ mutation_mark' =
            IF outcome = "mutated" /\ mutation_mark = -1
            THEN Len(transcript) + 2 ELSE mutation_mark
  /\ UNCHANGED <<loop_pc, prompt_context, pending_snapshot, staged_user,
                 skip_request, model_requests, prompts_read>>
  /\ RefreshStep

\* lines 521-522: a turn that handled a tool call goes round again
EndOfWalk ==
  /\ loop_pc = "walk"
  /\ walk_left = 0
  /\ loop_pc' = IF handled THEN "top" ELSE "scan"
  /\ UNCHANGED <<transcript, dirty, prompt_context, pending_snapshot, staged_user,
                 skip_request, handled, walk_left, model_requests, prompts_read,
                 mutation_mark>>
  /\ RefreshStep

\* lines 524-571: generated files of the assistant messages are written, or
\* the assistant is told that nothing changed
ScanMessages ==
  /\ loop_pc = "scan"
  /\ \E outcome \in {"applied", "nothing", "warned"} :
       /\ dirty' = (dirty \/ outcome = "applied")
       /\ mutation_mark' =
            IF outcome = "applied" /\ mutation_mark = -1
            THEN Len(transcript) ELSE mutation_mark
       /\ staged_user' = (outcome = "warned")
       /\ loop_pc' = IF outcome = "warned" THEN "top" ELSE "followup"
  /\ UNCHANGED <<transcript, prompt_context, pending_snapshot, skip_request,
                 handled, walk_left, model_requests, prompts_read>>
  /\ RefreshStep

\* lines 572-660: the follow-up prompt
FollowUpPrompt ==
  /\ loop_pc = "followup"
  /\ prompts_read < MaxPrompts
  /\ prompts_read' = prompts_read + 1
  /\ \E answer \in {"eof", "dog_whistle", "new", "shell", "shell_rejected",
                     "instruction"} :
       CASE answer = "eof" ->
              /\ loop_pc' = "done"
              /\ UNCHANGED <<transcript, pending_snapshot, staged_user,
                             skip_request, mutation_mark>>
         [] answer = "new" ->
              /\ loop_pc' = "top"
              /\ transcript' = <<>>
              /\ pending_snapshot' = prompt_context
              /\ staged_user' = FALSE
              /\ skip_request' = TRUE
              /\ mutation_mark' = IF mutation_mark = -1 THEN -1 ELSE 0
         [] answer = "shell" ->
              /\ loop_pc' = "top"
              /\ skip_request' = TRUE
              /\ UNCHANGED <<transcript, pending_snapshot, staged_user, mutation_mark>>
         [] answer = "shell_rejected" ->
              /\ loop_pc' = "top"
              /\ UNCHANGED <<transcript, pending_snapshot, staged_user,
                             skip_request, mutation_mark>>
         [] OTHER ->
              /\ loop_pc' = "top"
              /\ staged_user' = TRUE
              /\ skip_request' = FALSE
              /\ UNCHANGED <<transcript, pending_snapshot, mutation_mark>>
  /\ UNCHANGED <<dirty, prompt_context, handled, walk_left, model_requests>>
  /\ RefreshStep

NextRefresh ==
  \/ LoopHead
  \/ WalkCall
  \/ EndOfWalk
  \/ ScanMessages
  \/ FollowUpPrompt

SpecRefresh == InitRefresh /\ [][NextRefresh]_vars

(***************************************************************************)
(* Properties.                                                             *)
(***************************************************************************)

\* C1: while jfdi_enabled is false, a gated tool (write, write_file,
\* apply_patch, shell, unit_test_coverage) dispatched through the Tool
\* Runtime returns exactly JFDI_REQUIRED_MESSAGE with mutated = false, and
\* neither writes or deletes a file nor spawns a subprocess.
C1_GatedToolsBlocked ==
  (tool_result # NoToolResult /\ ~tool_call.jfdi /\ tool_call.name \in GatedTools)
    => /\ tool_result.raised = None
       /\ tool_result.result = JFDI_REQUIRED_MESSAGE
       /\ ~tool_result.mutated
       /\ tool_result.effects = {}

\* C2: in run_conversation and run_edit the assistant creates, overwrites or
\* deletes a file only in a state where jfdi_enabled is true: through the
\* write tool, the generated-file fallback and edit mode alike.
C2_FilesChangeOnlyUnderJfdi ==
  (last_effect.by = "assistant"
     /\ last_effect.effects \cap {"file_written", "file_deleted"} # {})
    => last_effect.jfdi

\* C3: jfdi_enabled is false when run_conversation enters its loop, and it
\* turns from false to true only in a step in which the user typed, at the
\* initial prompt or at the follow-up prompt, a text that trimmed and
\* lower-cased equals the configured dog-whistle phrase.
C3_JfdiOnlyByDogWhistle ==
  [][ /\ (pc = "idle" /\ pc' # "idle") => ~jfdi_enabled'
      /\ (~jfdi_enabled /\ jfdi_enabled') =>
           /\ pc \in {"idle", "followup"}
           /\ user_input' # <<>>
           /\ Lower(Strip(user_input')) = Lower(dog_whistle) ]_vars

\* jfdi_enabled was just unlocked by a phrase typed with other case or spacing
C3_Witness ==
  /\ jfdi_enabled
  /\ pc = "top"
  /\ user_input # <<>>
  /\ user_input # dog_whistle
  /\ Lower(Strip(user_input)) = Lower(dog_whistle)

\* C4: whenever a model request is open, every function_call item of the
\* transcript with call_id C is followed later in the transcript by exactly
\* one function_call_output item with call_id C.
C4_CallsAnswered ==
  pc = "stream" =>
    \A i \in DOMAIN conversation_items :
      conversation_items[i].type = "function_call" =>
        Cardinality({j \in DOMAIN conversation_items :
                       /\ j > i
                       /\ conversation_items[j].type = "function_call_output"
                       /\ conversation_items[j].cid = conversation_items[i].cid}) = 1

\* a request is open with a tool call in the transcript after a cancellation
C4_Witness ==
  /\ pc = "stream"
  /\ cancel_causes # <<>>
  /\ \E i \in DOMAIN conversation_items :
       conversation_items[i].type = "function_call"

\* C5: right after a quit or retry cancellation of a stream whose user
\* message is on record, the transcript is as long as it was immediately
\* before that user message was appended; after quit jfdi_enabled is false.
C5_CancelRestoresTranscript ==
  /\ (last_cancel.action # None /\ last_cancel.tracked)
       => Len(conversation_items) = len_before_user
  /\ last_cancel.action = "quit" => ~jfdi_enabled

\* a quit cancelled a follow-up instruction sent after an earlier turn
C5_Witness ==
  /\ last_cancel.action = "quit"
  /\ last_cancel.tracked
  /\ len_before_user >= 2

\* C6: after a retry cancelled the stream for user message P, the very next
\* step of the loop re-appends P and opens a new model request whose
\* transcript holds P exactly once, as its last item.
C6_RetryResendsOnce ==
  [][ (last_cancel.action = "retry" /\ last_cancel.tracked) =>
        LET P == UserMessage(last_user_message_payload.cid,
                             last_user_message_payload.tag)
        IN  /\ pc' = "stream"
            /\ requests' = requests + 1
            /\ Cardinality({i \in DOMAIN conversation_items' :
                              conversation_items'[i] = P}) = 1
            /\ conversation_items'[Len(conversation_items')] = P ]_vars

\* the third request for the task, after two consecutive retries
C6_Witness ==
  /\ pc = "stream"
  /\ requests = 3
  /\ cancel_causes = <<HotkeyEvent("retry", 1), HotkeyEvent("retry", 2)>>
  /\ conversation_items = <<UserMessage(1, "task")>>

C9_ToolsInOrder ==
  pc = "walk" =>
    LET IsCall(item) == item.type = "function_call"
        IsPair(item) == item.type \in {"function_call", "function_call_output"}
        walked == SelectSeq(SubSeq(response.output, 1, out_idx - 1), IsCall)
        added  == SelectSeq(SubSeq(conversation_items, walk_base + 1,
                                   Len(conversation_items)), IsPair)
    IN  /\ exec_log = [k \in DOMAIN walked |-> CallIdOf(walked[k])]
        /\ Len(added) = 2 * Len(exec_log)
        /\ \A k \in DOMAIN exec_log :
             /\ added[2 * k - 1].type = "function_call"
             /\ added[2 * k - 1].cid = exec_log[k]
             /\ added[2 * k].type = "function_call_output"
             /\ added[2 * k].cid = exec_log[k]

\* two tool calls of one output array have been executed
C9_Witness ==
  /\ pc = "walk"
  /\ Len(exec_log) = 2

\* C10: when the walk over an output array is over, every reasoning item
\* bound to a tool call (first in, first out: a call takes the oldest
\* reasoning item that precedes it and is not yet taken) stands in the
\* transcript immediately before that call's function_call item, also when
\* a message lies between the two in the output.
C10_ReasoningBeforeItsCall ==
  (pc = "walk" /\ out_idx > Len(response.output)) =>
    LET RECURSIVE Bound(_, _)
        Bound(k, queue) ==
          IF k > Len(response.output) THEN {}
          ELSE IF response.output[k].type = "reasoning"
          THEN Bound(k + 1, Append(queue, response.output[k].id))
          ELSE IF response.output[k].type = "function_call" /\ queue # <<>>
          THEN {<<Head(queue), CallIdOf(response.output[k])>>}
                 \cup Bound(k + 1, Tail(queue))
          ELSE Bound(k + 1, queue)
    IN  \A b \in Bound(1, <<>>) :
          \E p \in (walk_base + 1)..(Len(conversation_items) - 1) :
            /\ conversation_items[p] = ReasoningItem(b[1])
            /\ conversation_items[p + 1].type = "function_call"
            /\ conversation_items[p + 1].cid = b[2]

C12_OutsideIsRefused ==
  (tool_result # NoToolResult
     /\ tool_call.name \in {"read_file", "write", "write_file", "shell",
                            "glob", "search_content"}
     /\ tool_call.args.json = "ok"
     /\ tool_call.args.path # NoPath)
    => LET target == resolve(default_root, tool_call.args.path) IN
       \/ /\ Len(target) >= Len(base_root)
          /\ \A k \in 1..Len(base_root) : target[k] = base_root[k]
       \/ /\ tool_result.raised = None
          /\ tool_result.result \in {"error: path outside project root",
                                     "error: workdir outside project root",
                                     "error: cwd outside project root"}
          /\ ~tool_result.mutated
          /\ tool_result.effects = {}

\* C13: run_sandboxed_bash raises CommandRejected without spawning a
\* subprocess for an empty command, a command whose lower-cased text holds a
\* disallowed substring, a command with a token starting with "/" or "..",
\* or with a token containing ".git"; and whenever it spawns a subprocess,
\* the working directory is scope_root or a descendant of it.
C13_SandboxRejects ==
  bash_result # NoBashResult =>
    LET command == Strip(bash_call.command)
        tokens  == tokenize(command)
        scope   == resolve_from(<<>>, base_root)
    IN  /\ ( \/ command = <<>>
             \/ \E marker \in DISALLOWED_SUBSTRINGS :
                  Contains(Lower(command), marker)
             \/ \E k \in DOMAIN tokens :
                  \/ (Len(tokens[k]) >= 1 /\ tokens[k][1] = "/")
                  \/ (Len(tokens[k]) >= 2 /\ tokens[k][1] = "." /\ tokens[k][2] = ".")
                  \/ Contains(tokens[k], <<".", "g", "i", "t">>) )
             => (bash_result.raised = "CommandRejected" /\ ~bash_result.spawned)
        /\ bash_result.spawned =>
             /\ Len(bash_result.cwd) >= Len(scope)
             /\ \A k \in 1..Len(scope) : bash_result.cwd[k] = scope[k]
             /\ bash_result.cwd = resolve_from(<<>>, bash_call.cwd)

\* a command naming a path under .git was rejected in a directory of the scope
C13_Witness ==
  /\ bash_result.raised = "CommandRejected"
  /\ ~bash_result.spawned
  /\ bash_call.command = <<"c", "a", "t", " ", "a", "/", ".", "g", "i", "t">>
  /\ bash_call.cwd = default_root
  /\ bash_call.env.is_dir

\* C14: after a follow-up that starts with "!" (a command that ran, a
\* rejected command, a command that could not be run, a bare "!") the next
\* step of the loop opens no model request and is back at the follow-up
\* prompt.
C14_ShellFollowUpSkipsModel ==
  [][ (pc = "top" /\ user_input # <<>> /\ StartsWith(Strip(user_input), <<"!">>))
        => (pc' = "followup" /\ requests' = requests) ]_vars

\* C15: after the follow-up <<NEW_CONVERSATION>> the transcript is empty, the
\* plan is cleared, jfdi_enabled is false, no pending user message and no
\* buffered shell output is left; the head of the loop that follows appends
\* nothing but the repository snapshot and goes back to the follow-up prompt
\* without a model request.
AfterNewConversation ==
  /\ pc = "top"
  /\ Strip(PromptFollowUp(user_input)) = NEW_CONVERSATION_TOKEN

C15_NewConversationResets ==
  [][ AfterNewConversation =>
        /\ conversation_items = <<>>
        /\ plan_state = None
        /\ ~jfdi_enabled
        /\ pending_user_message = NoMsg
        /\ buffered_shell_messages = 0
        /\ pc' = "followup"
        /\ requests' = requests
        /\ \A k \in 1..Len(conversation_items') :
             conversation_items'[k] = UserMessage(0, "context") ]_vars

\* a reset entered after a tool call had run in the conversation
C15_Witness ==
  /\ AfterNewConversation
  /\ exec_log # <<>>
  /\ conversation_items = <<>>

\* C16: after a response.error event the call has returned 1 and the loop
\* opens no further model request on its own.
C16_ErrorEndsTurn ==
  [][ (last_error \in {"displayed", "silent"}) =>
        /\ pc = "idle"
        /\ rc = 1
        /\ requests' = requests ]_vars

\* C17: a tool call whose arguments are not valid JSON is answered with the
\* result "error: invalid arguments JSON (...)", mutated = false and no side
\* effect; nothing is raised.
C17_BadJsonIsAResult ==
  (tool_result # NoToolResult /\ tool_call.args.json = "bad")
    => /\ tool_result.raised = None
       /\ tool_result.result = "error: invalid arguments JSON"
       /\ ~tool_result.mutated
       /\ tool_result.effects = {}

\* C18: the dispatch of a shell-running tool call ends with a ToolResult for
\* the call in the transcript; no exception leaves run_conversation.
ShellRunningTools == {"shell", "unit_test_coverage", "search_content"}

C18_ShellFailureIsAResult ==
  [][ (/\ pc = "walk"
       /\ out_idx <= Len(response.output)
       /\ WalkedItem(response.output, out_idx).type = "function_call"
       /\ WalkedItem(response.output, out_idx).name \in ShellRunningTools)
      => /\ rc' # -2
         /\ pc' = "walk"
         /\ \E k \in 1..Len(conversation_items') :
              /\ conversation_items'[k].type = "function_call_output"
              /\ conversation_items'[k].cid =
                   CallIdOf(WalkedItem(response.output, out_idx)) ]_vars

\* C20: in a turn without tool calls, every assistant message that carries a
\* generated-file block is passed to review_file_update.  The files of the
\* loop's environment exist and are readable, so a call of review_file_update
\* through the fallback is a step whose effect is via "fallback" and holds
\* the read of the old text ("file_read").
C20_EveryBlockReviewed ==
  [][ (/\ pc = "scan"
       /\ scan_idx <= Len(assistant_messages)
       /\ detect_generated_files(assistant_messages[scan_idx].text) # <<>>)
      => /\ last_effect'.via = "fallback"
         /\ "file_read" \in last_effect'.effects ]_vars

C21_SliceRoundTrip ==
  file_slice # NoSlice =>
    /\ file_slice.truncated => file_slice.lines # <<>>
    /\ file_slice.truncated <=>
         (last_line_read(file_slice) < file_slice.total_lines
            \/ file_slice.truncated_by_bytes)
    /\ ~file_slice.truncated =>
         /\ Len(slice_lines) = Len(slice_file)
         /\ \A k \in 1..Len(slice_lines) : slice_lines[k].tag = k

\* C22: after a valid plan_update with replace=false, the stored ids are the
\* ids stored before, in their order, followed by the new ids of the call in
\* the call's order; an id named in the call carries the call's status and
\* content, every other todo is unchanged.
MergeCall ==
  /\ plan_update_calls > 0
  /\ ~plan_update_args.replace
  /\ plan_update_result = "plan updated"

C22_MergeById ==
  MergeCall =>
    LET U == plan_update_args.todos
        S == todos_before
        fresh == select_new(U, ids(S))
    IN  /\ Len(todos) = Len(S) + Len(fresh)
        /\ \A k \in 1..Len(S) :
             /\ todos[k].id = S[k].id
             /\ todos[k].id \notin ids(U) => todos[k] = S[k]
        /\ \A k \in 1..Len(fresh) : todos[Len(S) + k].id = fresh[k].id
        /\ \A k \in 1..Len(todos), j \in 1..Len(U) :
             todos[k].id = U[j].id => todos[k] = U[j]

\* a merge that updates a stored todo and appends a new one
C22_Witness ==
  /\ MergeCall
  /\ \E j \in 1..Len(plan_update_args.todos) :
       plan_update_args.todos[j].id \in ids(todos_before)
  /\ \E j \in 1..Len(plan_update_args.todos) :
       plan_update_args.todos[j].id \notin ids(todos_before)
  /\ todos # todos_before

TimedOut ==
  /\ bash_result # NoBashResult
  /\ bash_result.spawned
  /\ bash_call.env.proc = "timeout"

C24_TimeoutIsAResult ==
  TimedOut =>
    /\ bash_result.raised = None
    /\ bash_result.exit_code = 124
    /\ bash_result.stdout = partial_output(bash_call.env.stdout)
    /\ bash_result.stderr =
         partial_output(bash_call.env.stderr) \o <<"Command timed out">>

\* a timeout with partial output on both streams
C24_Witness ==
  /\ TimedOut
  /\ bash_result.stdout = <<"partial">>
  /\ Len(bash_result.stderr) = 2

\* C25: a load made at any moment, a save of the workspace being under way,
\* failed, crashed or finished, raises nothing and returns what the file
\* held when that save began, what that save was given, or ([], None).
LoadedFrom(content) ==
  IF content.kind = "json" /\ content.path = "workspace"
       /\ content.items # "not_list"
  THEN Loaded(None, content.items,
              IF content.plan = "not_str" THEN None ELSE content.plan)
  ELSE LoadedNothing

SaveIsAtomic ==
  load_result # NotLoaded /\ load_result.raised = None =>
    load_result \in {LoadedNothing, LoadedFrom(store_before),
                     LoadedFrom(save_payload)}

C25_AtomicSaveSafeLoad ==
  /\ SaveIsAtomic
  /\ load_result.raised = None

\* the queue holds the pushes in push order, and what was polled came before
InPushOrder ==
  /\ \A i, j \in DOMAIN polled_events :
       i < j => polled_events[i].nth < polled_events[j].nth
  /\ \A i, j \in DOMAIN hotkey_deque :
       i < j => hotkey_deque[i].nth < hotkey_deque[j].nth
  /\ \A i \in DOMAIN polled_events : \A j \in DOMAIN hotkey_deque :
       polled_events[i].nth < hotkey_deque[j].nth

\* a step that changes the queue is taken by the holder of the lock: a worker
\* appends one event, the calling thread removes from the front
QueueStepUnderLock ==
  hotkey_deque' # hotkey_deque =>
    /\ hotkey_lock # "free"
    /\ hotkey_lock \in Workers =>
         \E name \in HotkeyNames :
           hotkey_deque' = Append(hotkey_deque, Pushed(name, pushed'))
    /\ hotkey_lock = "loop" =>
         \E n \in 1..Len(hotkey_deque) :
           hotkey_deque' = SubSeq(hotkey_deque, n + 1, Len(hotkey_deque))

EditAnswered ==
  /\ edit_result # NoEditResult
  /\ edit_result.requested
  /\ ~edit_response.raised

\* C27: in edit mode, when the model's response is empty after code fences
\* are stripped the target file is removed by a sandboxed rm; otherwise the
\* new content is handed to review_file_update.
C27_EmptyEditDeletes ==
  EditAnswered =>
    IF strip_code_fence(edit_response.content) = <<>>
    THEN edit_result.rm
    ELSE edit_result.reviewed

\* the command line is a shell invocation: `!` leads the first argument, or
\* the second after an existing path
BangFirst == shell_argv # <<>> /\ startswith_bang(shell_argv[1])

BangAfterPath ==
  /\ Len(shell_argv) >= 2
  /\ ~startswith_bang(shell_argv[1])
  /\ startswith_bang(shell_argv[2])
  /\ path_entry(shell_argv[1]).kind # "missing"

\* the joined command of the invocation
JoinedCommand ==
  IF BangFirst
  THEN compose_shell_command(Tail(shell_argv[1]), Tail(shell_argv))
  ELSE compose_shell_command(Tail(shell_argv[2]), Tail(Tail(shell_argv)))

\* the executor ran the command and gave a result
Executed == shell_run.called /\ shell_run.result.raised = None

\* the path given, resolved
GivenPath == resolve(base_root, path_entry(shell_argv[1]).path)

\* C28 as stated: the joined command runs with cwd = the given path (or the
\* repository root), no model request is made and the exit code is returned;
\* an empty or rejected command returns 1.
C28_ShellInvocationAsStated ==
  (shell_run # NoShellRun /\ (BangFirst \/ BangAfterPath)) =>
    /\ shell_run.route = "shell"
    /\ ~shell_run.model_request
    /\ IF \/ Strip(JoinedCommand) = <<>>
          \/ shell_run.called /\ shell_run.result.raised = "CommandRejected"
       THEN shell_run.rc = 1 /\ ~shell_run.result.spawned
       ELSE /\ Executed
            /\ shell_run.result.spawned
            /\ shell_run.result.cwd = IF BangFirst THEN base_root ELSE GivenPath
            /\ shell_run.rc = shell_run.result.exit_code

\* C28: the joined command runs with cwd = the given directory, or the
\* directory holding the given file, or the repository root, no model request
\* is made and the exit code is returned; an empty command, a rejected
\* command and a command that could not be started return 1.
C28_ShellInvocation ==
  (shell_run # NoShellRun /\ (BangFirst \/ BangAfterPath)) =>
    /\ shell_run.route = "shell"
    /\ ~shell_run.model_request
    /\ IF Strip(JoinedCommand) = <<>>
       THEN shell_run.rc = 1 /\ ~shell_run.called
       ELSE IF shell_run.result.raised = "CommandRejected"
       THEN shell_run.rc = 1 /\ ~shell_run.result.spawned
       ELSE IF shell_run.result.raised # None
       THEN shell_run.rc = 1
       ELSE /\ Executed
            /\ shell_run.result.spawned
            /\ shell_run.result.cwd =
                 IF BangFirst THEN base_root
                 ELSE IF path_entry(shell_argv[1]).kind = "file"
                 THEN SubSeq(GivenPath, 1, Len(GivenPath) - 1)
                 ELSE GivenPath
            /\ shell_run.rc = shell_run.result.exit_code

\* a command given after a directory below the root ran there and failed
C28_Witness ==
  /\ BangAfterPath
  /\ Executed
  /\ shell_run.result.cwd = default_root
  /\ shell_run.rc = 1

\* the words the claim lists
ClaimedWords ==
  {
    <<"w", "r", "i", "t", "e">>, <<"c", "r", "e", "a", "t", "e">>,
    <<"a", "d", "d">>, <<"g", "e", "n", "e", "r", "a", "t", "e">>,
    <<"p", "r", "o", "d", "u", "c", "e">>, <<"s", "a", "v", "e">>,
    <<"a", "p", "p", "e", "n", "d">>, <<"c", "o", "m", "m", "i", "t">>,
    <<"a", "p", "p", "l", "y">>, <<"p", "a", "t", "c", "h">>,
    <<"u", "p", "d", "a", "t", "e">>, <<"m", "a", "k", "e">>,
    <<"b", "u", "i", "l", "d">>, <<"d", "r", "a", "f", "t">>,
    <<"a", "d", "d", "i", "t">>, <<"w", "r", "i", "t", "e", "i", "t">> }

\* the maximal runs of word characters of a text
RunsOf(text) ==
  { SubSeq(text, i, j) : <<i, j>> \in
      { p \in (1..Len(text)) \X (1..Len(text)) :
          /\ p[1] <= p[2]
          /\ \A k \in p[1]..p[2] : is_word_char(text[k])
          /\ (p[1] = 1 \/ ~is_word_char(text[p[1] - 1]))
          /\ (p[2] = Len(text) \/ ~is_word_char(text[p[2] + 1])) } }

\* the write handler gave the renderer the value for the latest instruction
PassedOn ==
  /\ write_call.status =
       handle_tool_call("write", write_args, ToolRuntime(TRUE), write_env)
  /\ write_call.reviewed =>
       write_call.auto_apply = instruction_implies_write(latest_instruction)

\* C29 as stated: instruction_implies_write(text) is true exactly when the
\* lowercased text contains one of the listed words, and the write handler
\* passes its value for the latest instruction to the renderer as auto_apply.
C29_ImpliesWriteAsStated ==
  write_call # NoWriteCall =>
    /\ instruction_implies_write(latest_instruction)
         <=> \E word \in ClaimedWords : Contains(Lower(latest_instruction), word)
    /\ PassedOn

\* C29: instruction_implies_write(text) is true exactly when one of the
\* listed words is a whole word of the lowercased text (a maximal run of
\* letters, digits and underscores), and the write handler passes its value
\* for the latest instruction to the renderer as auto_apply.
C29_ImpliesWrite ==
  write_call # NoWriteCall =>
    /\ instruction_implies_write(latest_instruction)
         <=> RunsOf(Lower(latest_instruction)) \cap ClaimedWords # {}
    /\ PassedOn

\* `please write foo.py` reached the renderer with auto_apply true
C29_Witness ==
  /\ latest_instruction =
       <<"p", "l", "e", "a", "s", "e", " ", "w", "r", "i", "t", "e", " ", "f", "o", "o", ".", "p", "y">>
  /\ write_call.reviewed
  /\ write_call.auto_apply
  /\ write_call.status.result = "applied"

\* the snapshot messages appended after the mutation that is owed one
SnapshotsSince(items) ==
  Cardinality({k \in (mutation_mark + 1)..Len(items) : items[k] = "snapshot"})

\* C30: whenever a tool call returned mutated = true or a generated-file
\* write was applied, exactly one `Updated repository snapshot` user message
\* is in the transcript after the ToolResult when the next model request is
\* opened.
C30_SnapshotAfterMutation ==
  [][ (mutation_mark # -1 /\ model_requests' > model_requests)
        => SnapshotsSince(transcript') = 1 ]_vars

\* the same, for a recomputed context that is not empty
C30_SnapshotOfNonEmptyContext ==
  [][ (mutation_mark # -1 /\ model_requests' > model_requests
         /\ prompt_context' # "")
        => SnapshotsSince(transcript') = 1 ]_vars

(***************************************************************************)
(* C31: the "It appears no files changed" reminder is one-shot.  A step    *)
(* that injects it finds warned_no_write clear and sets it, and comes at   *)
(* the end of a turn that had an assistant message, no tool call and no    *)
(* applied generated-file write.  The flag is cleared only by the answer   *)
(* given at the follow-up prompt, or on the way to that prompt (a skipped  *)
(* request leads there) or out of run_conversation.  So two injections are *)
(* always separated by a visit to the follow-up prompt.                    *)
(***************************************************************************)
InjectsReminder ==
  /\ serial' = serial + 1
  /\ pending_user_message' = Payload(serial', "reminder")

ClearsWarned == warned_no_write /\ ~warned_no_write'

InitListener ==
  /\ InitCore
  /\ ListenerRestIdle
  /\ engine_pc = "top"
  /\ exit_path = None
  /\ stdin_isatty \in BOOLEAN
  /\ listener_thread = None
  /\ listener_stop = None
  /\ listener_termios = None
  /\ stop_is_set = [w \in Workers |-> FALSE]
  /\ listener_pc = [w \in Workers |-> "dead"]
  /\ original_attrs = [w \in Workers |-> None]
  /\ terminal = "cooked"
  /\ bytes_read_at = {}
  /\ windows_opened = 0

ListenerStep == UNCHANGED <<core_vars, listener_rest>>

\* ai_engine_main.py 211-212 and start_hotkey_listener, lines 85-153
OpenWindow ==
  /\ engine_pc = "top"
  /\ windows_opened < MaxWindows
  /\ windows_opened' = windows_opened + 1
  /\ engine_pc' = "stream"
  /\ exit_path' = None
  /\ IF (listener_thread # None /\ listener_pc[listener_thread] # "dead")
        \/ ~stdin_isatty
     THEN UNCHANGED <<listener_thread, listener_stop, listener_termios, stop_is_set,
                      listener_pc, original_attrs>>
     ELSE \E w \in Workers :
            /\ listener_pc[w] = "dead"
            /\ original_attrs' = [original_attrs EXCEPT ![w] = terminal]
            /\ stop_is_set' = [stop_is_set EXCEPT ![w] = FALSE]
            /\ listener_stop' = w
            /\ listener_termios' = terminal
            /\ listener_thread' = w
            /\ listener_pc' = [listener_pc EXCEPT ![w] = "setup"]
  /\ UNCHANGED <<stdin_isatty, terminal, bytes_read_at>>
  /\ ListenerStep

\* the try block is left: the stream ends, a hotkey breaks it, response.error
\* breaks it, or an exception is raised
LeaveWindow ==
  /\ engine_pc = "stream"
  /\ exit_path' \in ExitPaths
  /\ engine_pc' = "finally"
  /\ UNCHANGED <<stdin_isatty, listener_thread, listener_stop, listener_termios,
                 stop_is_set, listener_pc, original_attrs, terminal, bytes_read_at,
                 windows_opened>>
  /\ ListenerStep

\* finally, line 406, and stop_hotkey_listener, lines 156-158
SetStop ==
  /\ engine_pc = "finally"
  /\ stop_is_set' = IF listener_stop # None
                    THEN [stop_is_set EXCEPT ![listener_stop] = TRUE]
                    ELSE stop_is_set
  /\ engine_pc' = "join"
  /\ UNCHANGED <<exit_path, stdin_isatty, listener_thread, listener_stop,
                 listener_termios, listener_pc, original_attrs, terminal,
                 bytes_read_at, windows_opened>>
  /\ ListenerStep

\* lines 159-172: join returns when the thread has ended or after 0.2 s,
\* the saved attributes are written back and the thread is forgotten
JoinAndRestore ==
  /\ engine_pc = "join"
  /\ terminal' = IF listener_termios # None THEN listener_termios ELSE terminal
  /\ listener_thread' = None
  /\ listener_stop' = None
  /\ listener_termios' = None
  /\ engine_pc' \in after_window(exit_path)
  /\ UNCHANGED <<exit_path, stdin_isatty, stop_is_set, listener_pc, original_attrs,
                 bytes_read_at, windows_opened>>
  /\ ListenerStep

\* lines 440-555: the output walk dispatches the tool calls
WalkOutput ==
  /\ engine_pc = "walk"
  /\ engine_pc' \in {"top", "prompt"}
  /\ UNCHANGED <<exit_path, stdin_isatty, listener_thread, listener_stop,
                 listener_termios, stop_is_set, listener_pc, original_attrs,
                 terminal, bytes_read_at, windows_opened>>
  /\ ListenerStep

\* lines 573-667: the follow-up prompt is answered
AnswerPrompt ==
  /\ engine_pc = "prompt"
  /\ engine_pc' \in {"top", "returned"}
  /\ UNCHANGED <<exit_path, stdin_isatty, listener_thread, listener_stop,
                 listener_termios, stop_is_set, listener_pc, original_attrs,
                 terminal, bytes_read_at, windows_opened>>
  /\ ListenerStep

\* worker, lines 108-122: cbreak mode
ListenerSetup ==
  \E w \in Workers :
    /\ listener_pc[w] = "setup"
    /\ terminal' = IF original_attrs[w] # None THEN "cbreak" ELSE terminal
    /\ listener_pc' = [listener_pc EXCEPT ![w] = "test"]
    /\ UNCHANGED <<engine_pc, exit_path, stdin_isatty, listener_thread, listener_stop,
                   listener_termios, stop_is_set, original_attrs, bytes_read_at,
                   windows_opened>>
    /\ ListenerStep

\* line 125: while not stop_event.is_set()
ListenerTest ==
  \E w \in Workers :
    /\ listener_pc[w] = "test"
    /\ listener_pc' =
         [listener_pc EXCEPT ![w] = IF stop_is_set[w] THEN "restore" ELSE "select"]
    /\ UNCHANGED <<engine_pc, exit_path, stdin_isatty, listener_thread, listener_stop,
                   listener_termios, stop_is_set, original_attrs, terminal,
                   bytes_read_at, windows_opened>>
    /\ ListenerStep

\* lines 126-143: select times out, or a byte of stdin is read
ListenerRead ==
  \E w \in Workers :
    /\ listener_pc[w] = "select"
    /\ listener_pc' = [listener_pc EXCEPT ![w] = "test"]
    /\ \/ UNCHANGED bytes_read_at
       \/ bytes_read_at' = bytes_read_at \cup {engine_pc}
    /\ UNCHANGED <<engine_pc, exit_path, stdin_isatty, listener_thread, listener_stop,
                   listener_termios, stop_is_set, original_attrs, terminal,
                   windows_opened>>
    /\ ListenerStep

\* lines 144-151: finally, the attributes of the closure are written back
ListenerRestore ==
  \E w \in Workers :
    /\ listener_pc[w] = "restore"
    /\ terminal' = IF original_attrs[w] # None THEN original_attrs[w] ELSE terminal
    /\ listener_pc' = [listener_pc EXCEPT ![w] = "dead"]
    /\ UNCHANGED <<engine_pc, exit_path, stdin_isatty, listener_thread, listener_stop,
                   listener_termios, stop_is_set, original_attrs, bytes_read_at,
                   windows_opened>>
    /\ ListenerStep

NextListener ==
  \/ OpenWindow
  \/ LeaveWindow
  \/ SetStop
  \/ JoinAndRestore
  \/ WalkOutput
  \/ AnswerPrompt
  \/ ListenerSetup
  \/ ListenerTest
  \/ ListenerRead
  \/ ListenerRestore

SpecListener == InitListener /\ [][NextListener]_vars

\* on every way out of the window the stop event of its worker is set and the
\* renderer has forgotten the thread
StopRequestedOnExit ==
  engine_pc \in {"top", "walk", "prompt", "returned"} =>
    /\ listener_thread = None
    /\ \A w \in Workers : listener_pc[w] # "dead" => stop_is_set[w]

\* C32: the hotkey listener is started at the beginning of each streaming
\* window and stopped, with the terminal attributes restored, on every exit
\* path from it; it is never active while a tool is dispatched or a follow-up
\* is prompted.
C32_ListenerOnlyInWindow ==
  /\ (engine_pc = "stream" /\ stdin_isatty) =>
       /\ listener_thread # None
       /\ listener_pc[listener_thread] # "dead"
  /\ engine_pc \in {"walk", "prompt"} =>
       /\ \A w \in Workers : listener_pc[w] = "dead"
       /\ terminal = "cooked"
  /\ bytes_read_at \subseteq {"stream", "finally", "join"}

(***************************************************************************)
(* The output_text events of one streaming window.  The provider sends,    *)
(* for each key, deltas and then at most one done event.                   *)
(***************************************************************************)
InitAssistant == InitCore /\ AuxInit

AssistantStep == UNCHANGED <<core_vars, assistant_rest>>

KeyIsDone(key) ==
  \E i \in DOMAIN arrived : arrived[i].type = "done" /\ arrived[i].key = key

\* lines 314-328: response.output_text.delta
OutputTextDelta ==
  /\ stream_exit = "open"
  /\ UNCHANGED stream_exit
  /\ Len(arrived) < MaxStreamEvents
  /\ \E key \in AssistantKeys, delta \in DeltaTexts :
       /\ ~KeyIsDone(key)
       /\ arrived' = Append(arrived, StreamEvent("delta", key, delta))
       /\ IF delta = <<>>
          THEN UNCHANGED <<buffer_keys, buffer_text, renderer_calls>>
          ELSE /\ buffer_keys' = buffer_keys \cup {key}
               /\ buffer_text' =
                    [buffer_text EXCEPT
                       ![key] = (IF key \in buffer_keys THEN @ ELSE <<>>) \o delta]
               /\ renderer_calls' =
                    renderer_calls
                      \o (IF key \in buffer_keys THEN <<>>
                          ELSE <<RendererCall("start", key, <<>>)>>)
                      \o <<RendererCall("update", key, delta)>>
  /\ AssistantStep

\* lines 329-345: response.output_text.done
OutputTextDone ==
  /\ stream_exit = "open"
  /\ UNCHANGED stream_exit
  /\ Len(arrived) < MaxStreamEvents
  /\ \E key \in AssistantKeys, final_text \in DoneTexts :
       /\ ~KeyIsDone(key)
       /\ arrived' = Append(arrived, StreamEvent("done", key, final_text))
       /\ buffer_keys' = buffer_keys \ {key}
       /\ buffer_text' = [buffer_text EXCEPT ![key] = <<>>]
       /\ renderer_calls' =
            Append(renderer_calls,
                   RendererCall("finish", key,
                                stream_text(final_text,
                                            IF key \in buffer_keys
                                            THEN buffer_text[key] ELSE <<>>)))
  /\ AssistantStep

\* the stream is exhausted: the provider has sent the done event of every
\* key it sent a delta for
StreamCompleted ==
  /\ stream_exit = "open"
  /\ \A i \in DOMAIN arrived : KeyIsDone(arrived[i].key)
  /\ stream_exit' = "completed"
  /\ UNCHANGED <<arrived, buffer_keys, buffer_text, renderer_calls>>
  /\ AssistantStep

\* lines 240-259 and 374-435: a polled quit or retry breaks out of the event
\* loop; the reasoning buffers are finished, the assistant buffers are left
StreamCancelled ==
  /\ stream_exit = "open"
  /\ stream_exit' \in {"quit", "retry"}
  /\ UNCHANGED <<arrived, buffer_keys, buffer_text, renderer_calls>>
  /\ AssistantStep

NextAssistant ==
  \/ OutputTextDelta
  \/ OutputTextDone
  \/ StreamCompleted
  \/ StreamCancelled

SpecAssistant == InitAssistant /\ [][NextAssistant]_vars

\* the texts of a sequence of events, joined
RECURSIVE JoinTexts(_)
JoinTexts(events) ==
  IF events = <<>> THEN <<>> ELSE Head(events).text \o JoinTexts(Tail(events))

\* what the renderer is owed for a key, given the events that arrived
ExpectedCalls(key) ==
  LET IsDelta(e) == e.type = "delta" /\ e.key = key /\ e.text # <<>>
      IsDone(e)  == e.type = "done" /\ e.key = key
      deltas     == SelectSeq(arrived, IsDelta)
      dones      == SelectSeq(arrived, IsDone)
  IN  (IF deltas = <<>> THEN <<>> ELSE <<RendererCall("start", key, <<>>)>>)
        \o [i \in 1..Len(deltas) |-> RendererCall("update", key, deltas[i].text)]
        \o (IF dones = <<>> THEN <<>>
            ELSE <<RendererCall("finish", key,
                                IF dones[1].text # <<>> THEN dones[1].text
                                ELSE JoinTexts(deltas))>>)

CallsOf(key) ==
  LET OfKey(c) == c.key = key IN SelectSeq(renderer_calls, OfKey)

\* C33: for each stream key the renderer receives start once before the
\* first delta, then every non-empty delta of that key in arrival order,
\* then finish with the final text: the text of the done event when it is
\* not empty, otherwise the deltas buffered for that key, joined; the deltas
\* of interleaved keys are not mixed.
C33_StreamCallsPerKey ==
  \A key \in AssistantKeys : CallsOf(key) = ExpectedCalls(key)

\* two keys interleaved; the first ends with an empty done text and is given
\* its two buffered deltas
C33_Witness ==
  /\ Len(renderer_calls) >= 5
  /\ renderer_calls[1] = RendererCall("start", "msg_1:0", <<>>)
  /\ renderer_calls[3].key = "msg_2:0"
  /\ \E i \in DOMAIN renderer_calls :
       renderer_calls[i] = RendererCall("finish", "msg_1:0", <<"a", "b">>)
  /\ \E i \in DOMAIN arrived : arrived[i] = StreamEvent("done", "msg_1:0", <<>>)

(***************************************************************************)
(* run_sandboxed_bash on every output, limit and outcome of the wait.      *)
(***************************************************************************)
InitOutput ==
  /\ InitCore
  /\ OutputRestIdle
  /\ stdout_raw \in OutputTexts
  /\ stderr_raw \in OutputTexts
  /\ timed_out \in BOOLEAN
  /\ max_output_bytes \in OutputLimits
  /\ command_result = NoCommandResult

RunCommand ==
  /\ command_result = NoCommandResult
  /\ command_result' = result_of_run(stdout_raw, stderr_raw, timed_out,
                                     max_output_bytes)
  /\ UNCHANGED <<stdout_raw, stderr_raw, timed_out, max_output_bytes>>
  /\ UNCHANGED <<core_vars, output_rest>>

NextOutput == RunCommand

SpecOutput == InitOutput /\ [][NextOutput]_vars

\* C34: every CommandResult, on the normal path and on the timeout path, has
\* stdout and stderr of at most max_output_bytes bytes of UTF-8 each, and
\* truncated is true exactly when at least one of them was cut.
C34_OutputWithinLimit ==
  command_result # NoCommandResult =>
    /\ utf8_len(command_result.stdout) <= max_output_bytes
    /\ utf8_len(command_result.stderr) <= max_output_bytes
    /\ command_result.truncated <=>
         (\/ utf8_len(stdout_raw) > max_output_bytes
          \/ utf8_len(stderr_raw) > max_output_bytes)

\* on the normal path, output of one-byte characters is within the limit and
\* the flag says whether it was cut
AsciiOutputWithinLimit ==
  (/\ command_result # NoCommandResult
   /\ ~timed_out
   /\ \A k \in DOMAIN stdout_raw : utf8_width(stdout_raw[k]) = 1
   /\ \A k \in DOMAIN stderr_raw : utf8_width(stderr_raw[k]) = 1) =>
    /\ utf8_len(command_result.stdout) <= max_output_bytes
    /\ utf8_len(command_result.stderr) <= max_output_bytes
    /\ command_result.truncated <=>
         (\/ command_result.stdout # stdout_raw
          \/ command_result.stderr # stderr_raw)

(***************************************************************************)
(* run_glob_search on every limit, cwd and listing.                        *)
(***************************************************************************)
InitGlob ==
  /\ InitCore
  /\ GlobRestIdle
  /\ glob_limit \in GlobLimits
  /\ glob_cwd \in GlobCwds
  /\ glob_listing \in GlobListings
  /\ glob_exists \in BOOLEAN
  /\ glob_result = NoGlobResult

GlobSearch ==
  /\ glob_result = NoGlobResult
  /\ glob_result' = glob_search(glob_limit, glob_cwd, glob_listing, glob_exists)
  /\ UNCHANGED <<glob_limit, glob_cwd, glob_listing, glob_exists>>
  /\ UNCHANGED <<core_vars, glob_rest>>

NextGlob == GlobSearch

SpecGlob == InitGlob /\ [][NextGlob]_vars

\* min(limit, 1000), 200 when the limit is absent
ClaimedCap ==
  IF glob_limit.kind = "int"
  THEN (IF glob_limit.value < MAX_GLOB_LIMIT THEN glob_limit.value ELSE MAX_GLOB_LIMIT)
  ELSE DEFAULT_GLOB_LIMIT

C35_WitnessDefault ==
  /\ glob_result.result = "matches"
  /\ glob_limit = NoLimit
  /\ Len(glob_listing) = 250
  /\ Len(glob_result.matches) = DEFAULT_GLOB_LIMIT

\* the requests whose stream was cancelled by a hotkey
CancelledRequests == {cancel_causes[i].win : i \in DOMAIN cancel_causes}

\* C36: when a stream is cancelled by quit or retry, no item of its response
\* is appended to the transcript and no tool call of it is dispatched, also
\* when the response was captured before the hotkey was polled.  The items of
\* response r carry the ids 10 * r + k.
C36_CancelledResponseDropped ==
  /\ \A k \in DOMAIN conversation_items :
       conversation_items[k].type # "user" =>
         (conversation_items[k].cid \div 10) \notin CancelledRequests
  /\ \A k \in DOMAIN exec_log : (exec_log[k] \div 10) \notin CancelledRequests
  /\ (pc = "walk" /\ response.captured) => requests \notin CancelledRequests

\* the step just taken cancelled the first stream after its response, of at
\* least one item, had been captured
C36_Witness ==
  /\ last_cancel.action # None
  /\ requests = 1
  /\ Len(cancel_causes) = 1
  /\ delivered > 1 + Len(hotkey_events)
  /\ pc = "top"

\* C37: a hotkey event produced during one streaming window never cancels a
\* later streaming window: an event that is polled was read from the
\* terminal in the window that polls it.
C37_NoStaleHotkey ==
  \A i \in DOMAIN polled_events :
    key_windows[polled_events[i].nth] >= 1 =>
      key_windows[polled_events[i].nth] = poll_windows[i]

StartedKeys == {renderer_calls[i].key : i \in {j \in DOMAIN renderer_calls : renderer_calls[j].op = "start"}}

FinishedKeys == {renderer_calls[i].key : i \in {j \in DOMAIN renderer_calls : renderer_calls[j].op = "finish"}}

\* C38: every assistant stream for which the renderer received
\* start_assistant_stream has received finish_assistant_stream when the loop
\* leaves the streaming window, on normal completion and on quit or retry
\* alike.
C38_StartedStreamsFinished ==
  stream_exit # "open" => StartedKeys \subseteq FinishedKeys

\* on normal completion every started stream was finished
CompletedStreamsFinished ==
  stream_exit = "completed" => StartedKeys \subseteq FinishedKeys

(***************************************************************************)
(* Inline mode: the loop of InlineModeRenderer.run, one step per request,  *)
(* per output item and per decision at the end of a response.              *)
(***************************************************************************)
InitInline == InitCore /\ InlineRestIdle /\ InlineIdle

InlineStep == UNCHANGED <<core_vars, inline_rest>>

\* lines 108-118: the next round of the for loop asks the model
CreateResponse ==
  /\ inline_pc = "request"
  /\ inline_requests < max_tool_rounds
  /\ \E resp \in InlineResponses :
       /\ inline_response' = resp
       /\ inline_requests' = inline_requests + 1
       /\ IF resp.failed
          THEN /\ inline_pc' = "returned"
               /\ inline_rc' = 1
               /\ UNCHANGED <<inline_idx, inline_tool_calls, inline_messages>>
          ELSE /\ inline_pc' = "items"
               /\ inline_idx' = 1
               /\ inline_tool_calls' = 0
               /\ inline_messages' = <<>>
               /\ UNCHANGED inline_rc
  /\ UNCHANGED <<inline_error, inline_shown, inline_effects, inline_tool_rounds,
                 inline_raised>>
  /\ InlineStep

\* lines 120-149: one output item
WalkItem ==
  /\ inline_pc = "items"
  /\ inline_idx <= Len(inline_response.output)
  /\ LET item   == inline_response.output[inline_idx]
         text   == extract_message_text(item)
         status == inline_dispatch(item)
     IN  IF item.type = "message"
         THEN /\ inline_messages' = IF text # <<>>
                                    THEN Append(inline_messages, text)
                                    ELSE inline_messages
              /\ inline_idx' = inline_idx + 1
              /\ UNCHANGED <<inline_pc, inline_tool_calls, inline_effects, inline_raised>>
         ELSE IF is_call(item)
         THEN /\ inline_effects' =
                   inline_effects \cup
                     {[tool |-> item.name, effect |-> e] : e \in status.effects}
              /\ IF status.raised # None
                 THEN /\ inline_pc' = "raised"
                      /\ inline_raised' = status.raised
                      /\ UNCHANGED <<inline_idx, inline_tool_calls>>
                 ELSE /\ inline_tool_calls' = inline_tool_calls + 1
                      /\ inline_idx' = inline_idx + 1
                      /\ UNCHANGED <<inline_pc, inline_raised>>
              /\ UNCHANGED inline_messages
         ELSE /\ inline_idx' = inline_idx + 1
              /\ UNCHANGED <<inline_pc, inline_tool_calls, inline_messages,
                             inline_effects, inline_raised>>
  /\ UNCHANGED <<inline_requests, inline_response, inline_rc, inline_error,
                 inline_shown, inline_tool_rounds>>
  /\ InlineStep

\* lines 151-159: the output is walked
EndOfResponse ==
  /\ inline_pc = "items"
  /\ inline_idx > Len(inline_response.output)
  /\ IF inline_tool_calls > 0
     THEN /\ inline_pc' = "request"
          /\ inline_tool_rounds' = inline_tool_rounds + 1
          /\ UNCHANGED <<inline_rc, inline_error, inline_shown>>
     ELSE IF inline_messages # <<>>
     THEN /\ inline_shown' = inline_messages[Len(inline_messages)]
          /\ inline_rc' = 0
          /\ inline_pc' = "returned"
          /\ UNCHANGED <<inline_error, inline_tool_rounds>>
     ELSE /\ inline_error' = NO_CONTENT_MESSAGE
          /\ inline_rc' = 1
          /\ inline_pc' = "returned"
          /\ UNCHANGED <<inline_shown, inline_tool_rounds>>
  /\ UNCHANGED <<inline_requests, inline_response, inline_idx, inline_tool_calls,
                 inline_messages, inline_effects, inline_raised>>
  /\ InlineStep

\* lines 161-162: the for loop is exhausted
LimitExceeded ==
  /\ inline_pc = "request"
  /\ inline_requests = max_tool_rounds
  /\ inline_error' = EXCEEDED_MESSAGE
  /\ inline_rc' = 1
  /\ inline_pc' = "returned"
  /\ UNCHANGED <<inline_requests, inline_response, inline_idx, inline_tool_calls,
                 inline_messages, inline_shown, inline_effects, inline_tool_rounds,
                 inline_raised>>
  /\ InlineStep

NextInline == CreateResponse \/ WalkItem \/ EndOfResponse \/ LimitExceeded

SpecInline == InitInline /\ [][NextInline]_vars

\* the loop has no blocking step of its own: every enabled step is taken
SpecInlineLive == SpecInline /\ WF_vars(NextInline)

\* C39: in inline mode no call emitted by the model creates, modifies or
\* deletes a file, and none runs a shell command the model chose
C39_InlineReadOnly ==
  \A e \in inline_effects :
    /\ e.effect \notin {"file_written", "file_deleted"}
    /\ e.tool \in {"shell", "apply_patch", "unit_test_coverage"} => e.effect # "subprocess"

\* the tools the inline request advertises leave files as they are
AdvertisedToolsReadOnly ==
  \A e \in inline_effects :
    e.tool = "read_file" => e.effect = "file_read"

\* what run returned, set against the response it ended on
InlineReturnCodes ==
  /\ inline_requests <= max_tool_rounds
  /\ inline_tool_rounds <= inline_requests
  /\ (inline_pc = "request" /\ inline_requests > 0) =>
       /\ has_tool_call(inline_response)
       /\ inline_tool_rounds = inline_requests
  /\ inline_pc = "returned" =>
       \/ /\ inline_rc = 0
          /\ ~inline_response.failed
          /\ has_message(inline_response) /\ ~has_tool_call(inline_response)
          /\ inline_shown # NoText /\ inline_error = None
          /\ inline_tool_rounds = inline_requests - 1
       \/ /\ inline_rc = 1
          /\ inline_response.failed
          /\ inline_error = None
          /\ inline_tool_rounds = inline_requests - 1
       \/ /\ inline_rc = 1
          /\ ~inline_response.failed
          /\ ~has_message(inline_response) /\ ~has_tool_call(inline_response)
          /\ inline_error = NO_CONTENT_MESSAGE
          /\ inline_tool_rounds = inline_requests - 1
       \/ /\ inline_rc = 1
          /\ inline_error = EXCEEDED_MESSAGE
          /\ inline_requests = max_tool_rounds
          /\ inline_tool_rounds = max_tool_rounds
  /\ inline_pc # "returned" => inline_rc = -1

\* C40: InlineModeRenderer.run always ends by returning, after at most 6
\* model requests: 0 at the first response with an assistant message and no
\* tool call, 1 when a request fails or a response has neither, and 1 with
\* the limit message when all 6 responses contain tool calls
C40_InlineReturns ==
  /\ InlineReturnCodes
  /\ inline_pc \in {"request", "items", "returned"}

\* run ends, by a return or by an exception
InlineEnds == <>(inline_pc \in {"returned", "raised"})

\* all six responses held tool calls
InlineLimitReached ==
  /\ inline_pc = "returned"
  /\ inline_error = EXCEEDED_MESSAGE
  /\ inline_requests = max_tool_rounds

====
